---- MODULE Spec2Model ----
(***************************************************************************)
(* ChangeElementTemplateHandler of the cloud element templates: the        *)
(* reconciliation of an element against a template (preExecute and the     *)
(* reconcilers it sequences), as a state machine over one element.         *)
(***************************************************************************)
EXTENDS Integers, Sequences, FiniteSets, TLC

VARIABLES
    doc,      \* the element's document state (fields, extension elements, message) and the mutations of the last run
    pre,      \* the document state when the last preExecute started
    oldT,     \* context.oldTemplate of the last preExecute
    newT,     \* context.newTemplate of the last preExecute
    calls,    \* number of preExecute runs so far
    last,     \* the operation that ran last
    event     \* the creation event handled last, when a creation event was the last operation

vars == <<doc, pre, oldT, newT, calls, last, event>>

(***************************************************************************)
(* Values.  JavaScript's undefined and the empty string are the two falsy  *)
(* values a field or a template default takes here.                        *)
(***************************************************************************)
Undef == "undefined"

Truthy(v) == v # Undef /\ v # ""

(***************************************************************************)
(* Binding types (util/bindingTypes).                                      *)
(***************************************************************************)
PROPERTY_TYPE == "property"
ZEEBE_TASK_DEFINITION_TYPE_TYPE == "zeebe:taskDefinition:type"
ZEEBE_TASK_DEFINITION == "zeebe:taskDefinition"
ZEEBE_INPUT_TYPE == "zeebe:input"
ZEEBE_OUTPUT_TYPE == "zeebe:output"
ZEEBE_TASK_HEADER_TYPE == "zeebe:taskHeader"
ZEEBE_PROPERTY_TYPE == "zeebe:property"
ZEEBE_CALLED_ELEMENT == "zeebe:calledElement"
MESSAGE_PROPERTY_TYPE == "bpmn:Message#property"
MESSAGE_ZEEBE_SUBSCRIPTION_PROPERTY_TYPE == "bpmn:Message#zeebe:subscription#property"

TASK_DEFINITION_TYPES == {ZEEBE_TASK_DEFINITION, ZEEBE_TASK_DEFINITION_TYPE_TYPE}

MESSAGE_BINDING_TYPES == {MESSAGE_PROPERTY_TYPE, MESSAGE_ZEEBE_SUBSCRIPTION_PROPERTY_TYPE}

(***************************************************************************)
(* Templates.  A binding carries the slots the code reads (name, source,   *)
(* key, property); a slot a binding type does not use is undefined.        *)
(***************************************************************************)
Binding(type, name, source, key, property) ==
    [type |-> type, name |-> name, source |-> source, key |-> key, property |-> property]

Property(type, value, hasChoices, choices, optional, binding) ==
    [type |-> type, value |-> value, hasChoices |-> hasChoices, choices |-> choices,
     optional |-> optional, binding |-> binding]

\* the result of a find that matched nothing
NoProperty == Property(Undef, Undef, FALSE, <<>>, FALSE, Binding(Undef, Undef, Undef, Undef, Undef))

NoElementType == [value |-> Undef, eventDefinition |-> Undef]

Template(id, version, icon, elementType, properties) ==
    [id |-> id, version |-> version, icon |-> icon, elementType |-> elementType,
     properties |-> properties]

\* context.oldTemplate or context.newTemplate left out
NoTemplate == Template(Undef, Undef, Undef, NoElementType, <<>>)

(***************************************************************************)
(* min-dash and array helpers.                                             *)
(***************************************************************************)
\* tests[i] tells whether the i-th element of a list satisfies the matcher: the index of
\* the first element that does, 0 when there is none
FindIndex(tests) ==
    IF \E i \in 1..Len(tests) : tests[i]
    THEN CHOOSE i \in 1..Len(tests) : tests[i] /\ \A j \in 1..(i - 1) : ~tests[j]
    ELSE 0

\* seq without the element at index i; seq itself when i = 0 (without(arr, undefined))
WithoutIndex(seq, i) ==
    [k \in 1..(Len(seq) - (IF i \in 1..Len(seq) THEN 1 ELSE 0)) |->
        IF i = 0 \/ k < i THEN seq[k] ELSE seq[k + 1]]

\* the elements of seq whose index is not listed in idxs (without(arr, e => idxs.includes(e)))
WithoutIndices(seq, idxs) ==
    LET keep == {k \in 1..Len(seq) : \A n \in 1..Len(idxs) : idxs[n] # k}
        Rank(k) == Cardinality({m \in keep : m <= k})
    IN  [n \in 1..Cardinality(keep) |-> seq[CHOOSE k \in keep : Rank(k) = n]]

removeBySpliceNothing(array, item) == array

\* remove(array, item): indexOf gives -1 for an item that is not in the array and is
\* never undefined, so splice(-1, 1) then drops the array's last element
removeBySplice(array, item) ==
    LET index == FindIndex([i \in 1..Len(array) |-> array[i] = item])
    IN  IF index # 0 THEN WithoutIndex(array, index)
        ELSE IF Len(array) = 0 THEN array
        ELSE SubSeq(array, 1, Len(array) - 1)

\* businessObject.get(name): undefined for a field that is not set
Get(obj, name) == IF name \in DOMAIN obj THEN obj[name] ELSE Undef

\* what getBusinessObject(undefined) yields: nothing to read from
NoObject == [n \in {} |-> Undef]

(***************************************************************************)
(* Helpers of ../Helper, ../CreateHelper and ../util/taskDefinition.       *)
(***************************************************************************)
getDefaultValue(property) == property.value

shouldUpdateAlways(value, property) == TRUE

shouldUpdate(value, property) == Truthy(value) \/ ~property.optional

getTaskDefinitionPropertyName(binding) ==
    IF binding.type = ZEEBE_TASK_DEFINITION_TYPE_TYPE THEN "type" ELSE binding.property

(***************************************************************************)
(* Value policy and identity matching.                                     *)
(***************************************************************************)
\* a reader that takes the source of an entry for the value of every binding
getPropertyValueSource(bo, property) == Get(bo, "source")

getPropertyValue(bo, property) ==
    LET binding == property.binding
        bindingType == binding.type
    IN  IF DOMAIN bo = {} THEN Undef
        ELSE IF bindingType = PROPERTY_TYPE THEN Get(bo, binding.name)
        ELSE IF bindingType \in TASK_DEFINITION_TYPES
             THEN Get(bo, getTaskDefinitionPropertyName(binding))
        ELSE IF bindingType = ZEEBE_INPUT_TYPE THEN Get(bo, "source")
        ELSE IF bindingType = ZEEBE_OUTPUT_TYPE THEN Get(bo, "target")
        ELSE IF bindingType = ZEEBE_TASK_HEADER_TYPE THEN Get(bo, "value")
        ELSE IF bindingType = ZEEBE_PROPERTY_TYPE THEN Get(bo, "value")
        ELSE IF bindingType = MESSAGE_PROPERTY_TYPE THEN Get(bo, binding.name)
        ELSE IF bindingType = MESSAGE_ZEEBE_SUBSCRIPTION_PROPERTY_TYPE THEN Get(bo, binding.name)
        ELSE Undef

\* a propertyChanged that takes every value for the old template's default
propertyChangedNever(bo, oldProperty) == FALSE

propertyChanged(bo, oldProperty) ==
    getPropertyValue(bo, oldProperty) # oldProperty.value

\* a shouldKeepValue that never lets a default through
shouldKeepValueAlways(bo, oldProperty, newProperty) == TRUE

shouldKeepValue(bo, oldProperty, newProperty) ==
    IF newProperty.type = "Hidden" THEN FALSE
    ELSE IF newProperty.type = "Dropdown"
         THEN /\ newProperty.hasChoices
              /\ \E i \in 1..Len(newProperty.choices) :
                    newProperty.choices[i] = getPropertyValue(bo, newProperty)
    ELSE IF oldProperty # NoProperty THEN propertyChanged(bo, oldProperty)
    ELSE Truthy(getPropertyValue(bo, newProperty))

\* find(oldProperties, matcher)
FindProperty(properties, tests) ==
    LET i == FindIndex(tests)
    IN  IF i = 0 THEN NoProperty ELSE properties[i]

\* a findOldProperty that matches nothing
findOldPropertyNone(oldTemplate, newProperty) == NoProperty

findOldProperty(oldTemplate, newProperty) ==
    LET oldProperties == oldTemplate.properties
        newBinding == newProperty.binding
        newBindingType == newBinding.type
        Find(Matcher(_)) ==
            FindProperty(oldProperties,
                         [i \in 1..Len(oldProperties) |-> Matcher(oldProperties[i])])
    IN  IF oldTemplate = NoTemplate THEN NoProperty
        ELSE IF newBindingType = PROPERTY_TYPE
             THEN Find(LAMBDA o :
                    o.binding.type = PROPERTY_TYPE /\ o.binding.name = newBinding.name)
        ELSE IF newBindingType \in TASK_DEFINITION_TYPES
             THEN Find(LAMBDA o :
                    getTaskDefinitionPropertyName(o.binding)
                        = getTaskDefinitionPropertyName(newBinding))
        ELSE IF newBindingType = ZEEBE_INPUT_TYPE
             THEN Find(LAMBDA o :
                    o.binding.type = ZEEBE_INPUT_TYPE /\ o.binding.name = newBinding.name)
        ELSE IF newBindingType = ZEEBE_OUTPUT_TYPE
             THEN Find(LAMBDA o :
                    o.binding.type = ZEEBE_OUTPUT_TYPE /\ o.binding.source = newBinding.source)
        ELSE IF newBindingType = ZEEBE_TASK_HEADER_TYPE
             THEN Find(LAMBDA o :
                    o.binding.type = ZEEBE_TASK_HEADER_TYPE /\ o.binding.key = newBinding.key)
        ELSE IF newBindingType = ZEEBE_PROPERTY_TYPE
             THEN Find(LAMBDA o :
                    o.binding.type = ZEEBE_PROPERTY_TYPE /\ o.binding.name = newBinding.name)
        ELSE IF newBindingType = MESSAGE_PROPERTY_TYPE
             THEN Find(LAMBDA o :
                    o.binding.type = MESSAGE_PROPERTY_TYPE /\ o.binding.name = newBinding.name)
        ELSE IF newBindingType = MESSAGE_ZEEBE_SUBSCRIPTION_PROPERTY_TYPE
             THEN Find(LAMBDA o :
                    o.binding.type = MESSAGE_ZEEBE_SUBSCRIPTION_PROPERTY_TYPE
                        /\ o.binding.name = newBinding.name)
        ELSE NoProperty

(***************************************************************************)
(* The document.  A node of an extension container carries its kind, its   *)
(* scalar fields and the entry lists a holder owns; an entry is a record   *)
(* of its two slots.  Objects are identified by their position in the list *)
(* that owns them, which no step changes before the final prune.           *)
(***************************************************************************)
TaskDefinitionFields == {"type", "retries"}
CalledElementFields == {"processId", "propagateAllChildVariables"}
SubscriptionFields == {"correlationKey", "correlationKeyType"}
NodeFields == TaskDefinitionFields \cup CalledElementFields \cup SubscriptionFields

Node(kind, fields) ==
    [kind |-> kind,
     attrs |-> [n \in NodeFields |-> Get(fields, n)],
     inputParameters |-> <<>>, outputParameters |-> <<>>,
     values |-> <<>>, properties |-> <<>>]

\* the element of a one-element set: a step's result, bound in a set, is a value that the
\* next statement reads, as the handler's statements run one after the other
TheOnly(S) == CHOOSE x \in S : TRUE

\* moddle's set: a value under a name the object has no field for changes no field
SetAttr(attrs, name, value) ==
    IF name \in DOMAIN attrs THEN [attrs EXCEPT ![name] = value] ELSE attrs

\* one mutation request to the command stack, recorded in issue order with the element
\* reference it is issued for
Emit(d, step, op) ==
    [d EXCEPT !.log = Append(@, [step |-> step, op |-> op, element |-> d.ref])]

\* findExtension(extensionElements, type): position of the first node of the kind
findExtension(values, kind) == FindIndex([i \in 1..Len(values) |-> values[i].kind = kind])

_getOrCreateExtensionElements(d, step) ==
    IF d.hasExt THEN d
    ELSE Emit([d EXCEPT !.hasExt = TRUE, !.values = <<>>], step, "extensionElements")

\* a stamp that leaves the version of the old template in place
_updateZeebeModelerTemplateIdOnly(d, newTemplate) ==
    Emit([d EXCEPT !.modelerTemplate = newTemplate.id], "identity", "modelerTemplate")

_updateZeebeModelerTemplate(d, newTemplate) ==
    Emit([d EXCEPT !.modelerTemplate = newTemplate.id,
                   !.modelerTemplateVersion = newTemplate.version],
         "identity", "modelerTemplate")

_updateZeebeModelerTemplateIcon(d, newTemplate) ==
    Emit([d EXCEPT !.modelerTemplateIcon = newTemplate.icon], "identity", "modelerTemplateIcon")

\* bpmnReplace.replaceElement(element, replacement): asked for the element at hand, it
\* returns a new element reference that carries the element's content under the new type
replaceElement(d, newType) ==
    [Emit(d, "elementType", "replace") EXCEPT !.type = newType, !.ref = @ + 1]

\* a type replacement that does not look at the old template's type
_updateElementTypeAlways(d, oldTemplate, newTemplate) ==
    IF newTemplate.elementType = NoElementType THEN d
    ELSE replaceElement(d, newTemplate.elementType)

_updateElementType(d, oldTemplate, newTemplate) ==
    LET newType == newTemplate.elementType
        oldType == oldTemplate.elementType
    IN  IF newType = NoElementType THEN d
        ELSE IF /\ oldType # NoElementType
                /\ oldType.value = newType.value
                /\ oldType.eventDefinition = newType.eventDefinition
             THEN d
        ELSE replaceElement(d, newType)

(***************************************************************************)
(* Plain properties.                                                       *)
(***************************************************************************)
OfTypes(properties, types) == SelectSeq(properties, LAMBDA p : p.binding.type \in types)

RECURSIVE ClearAttrs(_, _, _)
ClearAttrs(attrs, properties, i) ==
    IF i > Len(properties) THEN attrs
    ELSE ClearAttrs(SetAttr(attrs, properties[i].binding.name, Undef), properties, i + 1)

RECURSIVE _updatePropertiesEach(_, _, _, _)
_updatePropertiesEach(d, oldTemplate, newProperties, i) ==
    IF i > Len(newProperties) THEN d
    ELSE LET newProperty == newProperties[i]
             oldProperty == findOldProperty(oldTemplate, newProperty)
             newPropertyValue == getDefaultValue(newProperty)
             next == IF shouldKeepValue(d.attrs, oldProperty, newProperty) THEN d
                     ELSE Emit([d EXCEPT !.attrs = SetAttr(@, newProperty.binding.name,
                                                           newPropertyValue)],
                               "properties", "set")
         IN  _updatePropertiesEach(next, oldTemplate, newProperties, i + 1)

\* an _updateProperties that leaves the dropped fields as they are
_updatePropertiesKeepDropped(d, oldTemplate, newTemplate) ==
    _updatePropertiesEach(d, oldTemplate, OfTypes(newTemplate.properties, {PROPERTY_TYPE}), 1)

_updateProperties(d, oldTemplate, newTemplate) ==
    LET newProperties == OfTypes(newTemplate.properties, {PROPERTY_TYPE})
        propertiesToRemove ==
            SelectSeq(oldTemplate.properties, LAMBDA o :
                /\ o.binding.type = PROPERTY_TYPE
                /\ ~\E i \in 1..Len(newProperties) :
                      newProperties[i].binding.name = o.binding.name)
        d1 == IF Len(propertiesToRemove) > 0
              THEN Emit([d EXCEPT !.attrs = ClearAttrs(@, propertiesToRemove, 1)],
                        "properties", "remove")
              ELSE d
    IN  IF Len(newProperties) = 0 THEN d1
        ELSE _updatePropertiesEach(d1, oldTemplate, newProperties, 1)

(***************************************************************************)
(* zeebe:TaskDefinition.                                                   *)
(***************************************************************************)
\* the position of the task definition (0: none yet) is carried beside the document
RECURSIVE _updateZeebeTaskDefinitionEach(_, _, _, _, _)
_updateZeebeTaskDefinitionEach(d, td, oldTemplate, newProperties, i) ==
    IF i > Len(newProperties) THEN [d |-> d, td |-> td]
    ELSE LET newProperty == newProperties[i]
             oldProperty == findOldProperty(oldTemplate, newProperty)
             newPropertyValue == getDefaultValue(newProperty)
             propertyName == getTaskDefinitionPropertyName(newProperty.binding)
         IN  IF td # 0
             THEN LET next ==
                        IF shouldKeepValue(d.values[td].attrs, oldProperty, newProperty) THEN d
                        ELSE Emit([d EXCEPT !.values[td].attrs =
                                        SetAttr(@, propertyName, newPropertyValue)],
                                  "taskDefinition", "set")
                  IN  _updateZeebeTaskDefinitionEach(next, td, oldTemplate, newProperties, i + 1)
             ELSE LET created == Node("zeebe:TaskDefinition",
                                      [n \in {propertyName} |-> newPropertyValue])
                      next == Emit([d EXCEPT !.values = Append(@, created)],
                                   "taskDefinition", "create")
                  IN  _updateZeebeTaskDefinitionEach(next, Len(next.values), oldTemplate,
                                                     newProperties, i + 1)

RECURSIVE ClearNodeFields(_, _, _, _, _)
ClearNodeFields(d, node, oldProperties, step, i) ==
    IF i > Len(oldProperties) THEN d
    ELSE ClearNodeFields(
            Emit([d EXCEPT !.values[node].attrs =
                      SetAttr(@, oldProperties[i].binding.property, Undef)],
                 step, "clear"),
            node, oldProperties, step, i + 1)

_updateZeebeTaskDefinition(d0, oldTemplate, newTemplate) ==
    LET newProperties == OfTypes(newTemplate.properties, TASK_DEFINITION_TYPES)
        d == _getOrCreateExtensionElements(d0, "taskDefinition")
        taskDefinition == findExtension(d.values, "zeebe:TaskDefinition")
        oldProperties ==
            SelectSeq(oldTemplate.properties, LAMBDA o :
                /\ o.binding.type \in TASK_DEFINITION_TYPES
                /\ ~\E i \in 1..Len(newProperties) :
                      newProperties[i].binding.property = o.binding.property)
    IN  IF Len(newProperties) = 0
        THEN Emit([d EXCEPT !.values = WithoutIndex(@, taskDefinition)],
                  "taskDefinition", "remove")
        ELSE LET r == _updateZeebeTaskDefinitionEach(d, taskDefinition, oldTemplate,
                                                     newProperties, 1)
             IN  ClearNodeFields(r.d, r.td, oldProperties, "taskDefinition", 1)

(***************************************************************************)
(* Structure locator.  For a task-definition binding the result is the     *)
(* position of the node in the container, for a keyed-collection binding   *)
(* the position of the entry in its holder's list; 0 is "not found".       *)
(***************************************************************************)
\* a locator that finds nothing
findBusinessObjectNone(values, property) == 0

findBusinessObject(values, property) ==
    LET binding == property.binding
        bindingType == binding.type
        EntryOf(kind, list, slot, wanted) ==
            LET holder == findExtension(values, kind)
            IN  IF holder = 0 THEN 0
                ELSE FindIndex([i \in 1..Len(values[holder][list]) |->
                                    values[holder][list][i][slot] = wanted])
    IN  IF bindingType \in TASK_DEFINITION_TYPES
        THEN findExtension(values, "zeebe:TaskDefinition")
        ELSE IF bindingType = ZEEBE_INPUT_TYPE
             THEN EntryOf("zeebe:IoMapping", "inputParameters", "target", binding.name)
        ELSE IF bindingType = ZEEBE_OUTPUT_TYPE
             THEN EntryOf("zeebe:IoMapping", "outputParameters", "source", binding.source)
        ELSE IF bindingType = ZEEBE_TASK_HEADER_TYPE
             THEN EntryOf("zeebe:TaskHeaders", "values", "key", binding.key)
        ELSE IF bindingType = ZEEBE_PROPERTY_TYPE
             THEN EntryOf("zeebe:Properties", "properties", "name", binding.name)
        ELSE 0

\* the positions 1..n of a list's entries: the slice() taken before the entries are visited
\* a snapshot that also lists the places the run's appends will take
SnapshotWithAppended(list) == [i \in 1..Len(list) + 2 |-> i]

Snapshot(list) == [i \in 1..Len(list) |-> i]

createInputParameter(binding, value) == [source |-> value, target |-> binding.name]

createOutputParameter(binding, value) == [source |-> binding.source, target |-> value]

createTaskHeader(binding, value) == [key |-> binding.key, value |-> value]

createZeebeProperty(binding, value) == [name |-> binding.name, value |-> value]

\* a step (1) that empties the holder and leaves it in the container
RemoveHolderEntries(d, holder, step) ==
    Emit([d EXCEPT !.values[holder] = Node(@.kind, <<>>)], step, "remove")

\* step (1) of a keyed-collection reconciler: the holder leaves the container
RemoveHolder(d, holder, step) ==
    Emit([d EXCEPT !.values = WithoutIndex(@, holder)], step, "remove")

(***************************************************************************)
(* zeebe:Input and zeebe:Output.                                           *)
(***************************************************************************)
RECURSIVE _updateZeebeInputOutputEach(_, _, _, _, _, _, _)
_updateZeebeInputOutputEach(d, io, oldInputs, oldOutputs, oldTemplate, newProperties, i) ==
    IF i > Len(newProperties) THEN [d |-> d, oldInputs |-> oldInputs, oldOutputs |-> oldOutputs]
    ELSE LET newProperty == newProperties[i]
             oldProperty == findOldProperty(oldTemplate, newProperty)
             inputOrOutput == findBusinessObject(d.values, newProperty)
             newPropertyValue == getDefaultValue(newProperty)
             newBinding == newProperty.binding
             isInput == newBinding.type = ZEEBE_INPUT_TYPE
             list == IF isInput THEN "inputParameters" ELSE "outputParameters"
         IN  IF inputOrOutput # 0
             THEN LET keep == shouldKeepValue(d.values[io][list][inputOrOutput],
                                              oldProperty, newProperty)
                      exclude == shouldUpdate(newPropertyValue, newProperty) \/ keep
                      ins == IF exclude /\ isInput
                             THEN removeBySplice(oldInputs, inputOrOutput) ELSE oldInputs
                      outs == IF exclude /\ ~isInput
                              THEN removeBySplice(oldOutputs, inputOrOutput) ELSE oldOutputs
                      next == IF keep THEN d
                              ELSE IF isInput
                                   THEN Emit([d EXCEPT !.values[io].inputParameters[inputOrOutput]
                                                           .source = newPropertyValue],
                                             "ioMapping", "set")
                                   ELSE Emit([d EXCEPT !.values[io].outputParameters[inputOrOutput]
                                                           .target = newPropertyValue],
                                             "ioMapping", "set")
                  IN  _updateZeebeInputOutputEach(next, io, ins, outs, oldTemplate,
                                                  newProperties, i + 1)
             ELSE IF shouldUpdate(newPropertyValue, newProperty)
             THEN LET next ==
                        IF isInput
                        THEN Emit([d EXCEPT !.values[io].inputParameters =
                                       Append(@, createInputParameter(newBinding, newPropertyValue))],
                                  "ioMapping", "create")
                        ELSE Emit([d EXCEPT !.values[io].outputParameters =
                                       Append(@, createOutputParameter(newBinding, newPropertyValue))],
                                  "ioMapping", "create")
                  IN  _updateZeebeInputOutputEach(next, io, oldInputs, oldOutputs, oldTemplate,
                                                  newProperties, i + 1)
             ELSE _updateZeebeInputOutputEach(d, io, oldInputs, oldOutputs, oldTemplate,
                                              newProperties, i + 1)

_updateZeebeInputOutputParameterProperties(d0, oldTemplate, newTemplate) ==
    LET newProperties == OfTypes(newTemplate.properties, {ZEEBE_INPUT_TYPE, ZEEBE_OUTPUT_TYPE})
        d == _getOrCreateExtensionElements(d0, "ioMapping")
        ioMapping == findExtension(d.values, "zeebe:IoMapping")
    IN  IF Len(newProperties) = 0
        THEN IF ioMapping = 0 THEN d
             ELSE \* no return after the removal: the rest runs on the holder just removed
                  \* from the container, so (4) is issued but changes nothing in the document
                  LET holder == d.values[ioMapping]
                      d1 == RemoveHolder(d, ioMapping, "ioMapping")
                      d2 == IF Len(holder.inputParameters) > 0
                            THEN Emit(d1, "ioMapping", "prune") ELSE d1
                  IN  IF Len(holder.outputParameters) > 0
                      THEN Emit(d2, "ioMapping", "prune") ELSE d2
        ELSE LET d1 == IF ioMapping # 0 THEN d
                       ELSE Emit([d EXCEPT !.values = Append(@, Node("zeebe:IoMapping", <<>>))],
                                 "ioMapping", "createHolder")
                 io == IF ioMapping # 0 THEN ioMapping ELSE Len(d1.values)
                 r == _updateZeebeInputOutputEach(d1, io,
                         Snapshot(d1.values[io].inputParameters),
                         Snapshot(d1.values[io].outputParameters),
                         oldTemplate, newProperties, 1)
                 d2 == IF Len(r.oldInputs) > 0
                       THEN Emit([r.d EXCEPT !.values[io].inputParameters =
                                      WithoutIndices(@, r.oldInputs)], "ioMapping", "prune")
                       ELSE r.d
             IN  IF Len(r.oldOutputs) > 0
                 THEN Emit([d2 EXCEPT !.values[io].outputParameters =
                                WithoutIndices(@, r.oldOutputs)], "ioMapping", "prune")
                 ELSE d2

(***************************************************************************)
(* zeebe:Header.                                                           *)
(***************************************************************************)
RECURSIVE _updateZeebeTaskHeaderEach(_, _, _, _, _, _)
_updateZeebeTaskHeaderEach(d, th, oldHeaders, oldTemplate, newProperties, i) ==
    IF i > Len(newProperties) THEN [d |-> d, oldHeaders |-> oldHeaders]
    ELSE LET newProperty == newProperties[i]
             oldProperty == findOldProperty(oldTemplate, newProperty)
             oldHeader == findBusinessObject(d.values, newProperty)
             newPropertyValue == getDefaultValue(newProperty)
         IN  IF oldHeader # 0
             THEN LET next ==
                        IF shouldKeepValue(d.values[th].values[oldHeader], oldProperty, newProperty)
                        THEN d
                        ELSE Emit([d EXCEPT !.values[th].values[oldHeader].value = newPropertyValue],
                                  "taskHeaders", "set")
                  IN  _updateZeebeTaskHeaderEach(next, th, removeBySplice(oldHeaders, oldHeader),
                                                 oldTemplate, newProperties, i + 1)
             ELSE IF Truthy(newPropertyValue)
             THEN _updateZeebeTaskHeaderEach(
                      Emit([d EXCEPT !.values[th].values =
                                Append(@, createTaskHeader(newProperty.binding, newPropertyValue))],
                           "taskHeaders", "create"),
                      th, oldHeaders, oldTemplate, newProperties, i + 1)
             ELSE _updateZeebeTaskHeaderEach(d, th, oldHeaders, oldTemplate, newProperties, i + 1)

_updateZeebeTaskHeaderProperties(d0, oldTemplate, newTemplate) ==
    LET newProperties == OfTypes(newTemplate.properties, {ZEEBE_TASK_HEADER_TYPE})
        d == _getOrCreateExtensionElements(d0, "taskHeaders")
        taskHeaders == findExtension(d.values, "zeebe:TaskHeaders")
    IN  IF Len(newProperties) = 0
        THEN IF taskHeaders = 0 THEN d
             ELSE LET holder == d.values[taskHeaders]
                      d1 == RemoveHolder(d, taskHeaders, "taskHeaders")
                  IN  IF Len(holder.values) > 0 THEN Emit(d1, "taskHeaders", "prune") ELSE d1
        ELSE LET d1 == IF taskHeaders # 0 THEN d
                       ELSE Emit([d EXCEPT !.values = Append(@, Node("zeebe:TaskHeaders", <<>>))],
                                 "taskHeaders", "createHolder")
                 th == IF taskHeaders # 0 THEN taskHeaders ELSE Len(d1.values)
                 r == _updateZeebeTaskHeaderEach(d1, th, Snapshot(d1.values[th].values),
                                                 oldTemplate, newProperties, 1)
             IN  IF Len(r.oldHeaders) > 0
                 THEN Emit([r.d EXCEPT !.values[th].values = WithoutIndices(@, r.oldHeaders)],
                           "taskHeaders", "prune")
                 ELSE r.d

(***************************************************************************)
(* zeebe:Property.                                                         *)
(***************************************************************************)
RECURSIVE _updateZeebePropertyEach(_, _, _, _, _, _)
_updateZeebePropertyEach(d, zp, oldZeebeProperties, oldTemplate, newProperties, i) ==
    IF i > Len(newProperties) THEN [d |-> d, oldZeebeProperties |-> oldZeebeProperties]
    ELSE LET newProperty == newProperties[i]
             oldProperty == findOldProperty(oldTemplate, newProperty)
             oldZeebeProperty == findBusinessObject(d.values, newProperty)
             newPropertyValue == getDefaultValue(newProperty)
         IN  IF oldZeebeProperty # 0
             THEN LET keep == shouldKeepValue(d.values[zp].properties[oldZeebeProperty],
                                              oldProperty, newProperty)
                      olds == IF shouldUpdate(newPropertyValue, newProperty) \/ keep
                              THEN removeBySplice(oldZeebeProperties, oldZeebeProperty)
                              ELSE oldZeebeProperties
                      next == IF keep THEN d
                              ELSE Emit([d EXCEPT !.values[zp].properties[oldZeebeProperty].value =
                                             newPropertyValue],
                                        "zeebeProperties", "set")
                  IN  _updateZeebePropertyEach(next, zp, olds, oldTemplate, newProperties, i + 1)
             ELSE IF shouldUpdate(newPropertyValue, newProperty)
             THEN _updateZeebePropertyEach(
                      Emit([d EXCEPT !.values[zp].properties =
                                Append(@, createZeebeProperty(newProperty.binding, newPropertyValue))],
                           "zeebeProperties", "create"),
                      zp, oldZeebeProperties, oldTemplate, newProperties, i + 1)
             ELSE _updateZeebePropertyEach(d, zp, oldZeebeProperties, oldTemplate,
                                           newProperties, i + 1)

_updateZeebePropertyProperties(d0, oldTemplate, newTemplate) ==
    LET newProperties == OfTypes(newTemplate.properties, {ZEEBE_PROPERTY_TYPE})
        d == _getOrCreateExtensionElements(d0, "zeebeProperties")
        zeebeProperties == findExtension(d.values, "zeebe:Properties")
    IN  IF Len(newProperties) = 0
        THEN IF zeebeProperties = 0 THEN d
             ELSE LET holder == d.values[zeebeProperties]
                      d1 == RemoveHolder(d, zeebeProperties, "zeebeProperties")
                  IN  IF Len(holder.properties) > 0
                      THEN Emit(d1, "zeebeProperties", "prune") ELSE d1
        ELSE LET d1 == IF zeebeProperties # 0 THEN d
                       ELSE Emit([d EXCEPT !.values = Append(@, Node("zeebe:Properties", <<>>))],
                                 "zeebeProperties", "createHolder")
                 zp == IF zeebeProperties # 0 THEN zeebeProperties ELSE Len(d1.values)
                 r == _updateZeebePropertyEach(d1, zp, Snapshot(d1.values[zp].properties),
                                               oldTemplate, newProperties, 1)
             IN  IF Len(r.oldZeebeProperties) > 0
                 THEN Emit([r.d EXCEPT !.values[zp].properties =
                                WithoutIndices(@, r.oldZeebeProperties)],
                           "zeebeProperties", "prune")
                 ELSE r.d

(***************************************************************************)
(* bpmn:Message and its zeebe:Subscription.                                *)
(***************************************************************************)
MessageFields == {"name", "itemRef"}

NewMessage(templateId) ==
    [attrs |-> [n \in MessageFields |-> Undef], modelerTemplate |-> templateId,
     hasExt |-> FALSE, values |-> <<>>]

\* the value of the msg slot while the element references no message
NoMessage == NewMessage(Undef)

\* step names the reconciler that asks, as for _getOrCreateExtensionElements
_createMessage(d, template, step) ==
    Emit([d EXCEPT !.hasMsg = TRUE, !.msg = NewMessage(template.id)], step, "createMessage")

_getOrCreateMessage(d, template, step) ==
    IF d.hasMsg THEN d ELSE _createMessage(d, template, step)

\* _getOrCreateExtensionElements(element, message)
_getOrCreateMessageExtensionElements(d, step) ==
    IF d.msg.hasExt THEN d
    ELSE Emit([d EXCEPT !.msg.hasExt = TRUE, !.msg.values = <<>>], step, "extensionElements")

RECURSIVE ClearMessageFields(_, _, _)
ClearMessageFields(d, removedProperties, i) ==
    IF i > Len(removedProperties) THEN d
    ELSE ClearMessageFields(
            Emit([d EXCEPT !.msg.attrs = SetAttr(@, removedProperties[i].binding.name, Undef)],
                 "message", "clear"),
            removedProperties, i + 1)

RECURSIVE _updateMessagePropertiesEach(_, _, _, _)
_updateMessagePropertiesEach(d, oldTemplate, newProperties, i) ==
    IF i > Len(newProperties) THEN d
    ELSE LET newProperty == newProperties[i]
             oldProperty == findOldProperty(oldTemplate, newProperty)
             newPropertyValue == getDefaultValue(newProperty)
             next == IF shouldKeepValue(d.msg.attrs, oldProperty, newProperty) THEN d
                     ELSE Emit([d EXCEPT !.msg.attrs = SetAttr(@, newProperty.binding.name,
                                                               newPropertyValue)],
                               "message", "set")
         IN  _updateMessagePropertiesEach(next, oldTemplate, newProperties, i + 1)

\* the old properties of a binding type whose name no new property of that type binds
RemovedByName(oldTemplate, newProperties, type) ==
    SelectSeq(oldTemplate.properties, LAMBDA o :
        /\ o.binding.type = type
        /\ ~\E i \in 1..Len(newProperties) : newProperties[i].binding.name = o.binding.name)

_updateMessageProperties(d, oldTemplate, newTemplate) ==
    LET newProperties == OfTypes(newTemplate.properties, {MESSAGE_PROPERTY_TYPE})
        removedProperties == RemovedByName(oldTemplate, newProperties, MESSAGE_PROPERTY_TYPE)
        d1 == IF d.hasMsg THEN ClearMessageFields(d, removedProperties, 1) ELSE d
    IN  IF Len(newProperties) = 0 THEN d1
        ELSE _updateMessagePropertiesEach(_getOrCreateMessage(d1, newTemplate, "message"),
                                          oldTemplate, newProperties, 1)

\* the fields of an object literal built by assigning pairs[1], pairs[2], ... in turn
RECURSIVE AssignAll(_, _, _)
AssignAll(attrs, pairs, i) ==
    IF i > Len(pairs) THEN attrs
    ELSE AssignAll(SetAttr(attrs, pairs[i][1], pairs[i][2]), pairs, i + 1)

_updateMessageZeebeSubscriptionProperties(d0, oldTemplate, newTemplate) ==
    LET newProperties ==
            OfTypes(newTemplate.properties, {MESSAGE_ZEEBE_SUBSCRIPTION_PROPERTY_TYPE})
        removedProperties ==
            RemovedByName(oldTemplate, newProperties, MESSAGE_ZEEBE_SUBSCRIPTION_PROPERTY_TYPE)
    IN  IF Len(newProperties) = 0 /\ Len(removedProperties) = 0 THEN d0
        ELSE LET d == _getOrCreateMessageExtensionElements(
                          _getOrCreateMessage(d0, newTemplate, "subscription"), "subscription")
                 zeebeSubscription == findExtension(d.msg.values, "zeebe:Subscription")
                 changedElement == IF zeebeSubscription = 0 THEN NoObject
                                   ELSE d.msg.values[zeebeSubscription].attrs
                 toSet == SelectSeq(newProperties, LAMBDA p :
                             ~shouldKeepValue(changedElement,
                                              findOldProperty(oldTemplate, p), p))
                 propertiesToSet ==
                     [i \in 1..Len(toSet) |-> <<toSet[i].binding.name, getDefaultValue(toSet[i])>>]
                 propertiesToRemove ==
                     [i \in 1..Len(removedProperties) |->
                         <<removedProperties[i].binding.name, Undef>>]
             IN  IF zeebeSubscription = 0
                 THEN Emit([d EXCEPT !.msg.values =
                                Append(@, [Node("zeebe:Subscription", <<>>) EXCEPT
                                              !.attrs = AssignAll(@, propertiesToSet, 1)])],
                           "subscription", "create")
                 ELSE LET d1 == Emit([d EXCEPT !.msg.values[zeebeSubscription].attrs =
                                          AssignAll(@, propertiesToSet, 1)],
                                     "subscription", "set")
                      IN  IF oldTemplate = NoTemplate THEN d1
                          ELSE Emit([d1 EXCEPT !.msg.values[zeebeSubscription].attrs =
                                         AssignAll(@, propertiesToRemove, 1)],
                                    "subscription", "clear")

\* a stamp sync that leaves the message as it is
_updateZeebeModelerTemplateOnReferencedElementNever(d, oldTemplate, newTemplate) == d

_updateZeebeModelerTemplateOnReferencedElement(d, oldTemplate, newTemplate) ==
    IF ~d.hasMsg THEN d
    ELSE IF d.msg.modelerTemplate = newTemplate.id THEN d
    ELSE Emit([d EXCEPT !.msg.modelerTemplate = newTemplate.id], "messageStamp", "modelerTemplate")

\* a test that looks for message fields only, not for subscription fields
hasMessagePropertiesFieldsOnly(template) ==
    \E i \in 1..Len(template.properties) :
        template.properties[i].binding.type = MESSAGE_PROPERTY_TYPE

hasMessageProperties(template) ==
    \E i \in 1..Len(template.properties) :
        template.properties[i].binding.type \in MESSAGE_BINDING_TYPES

\* the remove-message collaborator: detaches the message the element references
removeMessage(d) ==
    Emit(IF d.hasMsg THEN [d EXCEPT !.hasMsg = FALSE, !.msg = NoMessage] ELSE d,
         "removeMessage", "removeMessage")

\* the first two statements of _updateMessage: message fields, then subscription fields
MessageFieldsUpdated(d, oldTemplate, newTemplate) ==
    TheOnly({_updateMessageZeebeSubscriptionProperties(d1, oldTemplate, newTemplate) :
        d1 \in {_updateMessageProperties(d, oldTemplate, newTemplate)}})

_updateMessage(d, oldTemplate, newTemplate) ==
    TheOnly({IF ~hasMessageProperties(newTemplate) THEN removeMessage(d3) ELSE d3 :
        d3 \in {_updateZeebeModelerTemplateOnReferencedElement(d2, oldTemplate, newTemplate) :
        d2 \in {MessageFieldsUpdated(d, oldTemplate, newTemplate)}}})

(***************************************************************************)
(* zeebe:CalledElement.                                                    *)
(***************************************************************************)
RECURSIVE _updateCalledElementEach(_, _, _, _, _)
_updateCalledElementEach(d, ce, oldTemplate, newProperties, i) ==
    IF i > Len(newProperties) THEN [d |-> d, ce |-> ce]
    ELSE LET newProperty == newProperties[i]
             oldProperty == findOldProperty(oldTemplate, newProperty)
             newPropertyValue == getDefaultValue(newProperty)
             propertyName == newProperty.binding.property
         IN  IF ce # 0
             THEN LET next ==
                        IF shouldKeepValue(d.values[ce].attrs, oldProperty, newProperty) THEN d
                        ELSE Emit([d EXCEPT !.values[ce].attrs =
                                        SetAttr(@, propertyName, newPropertyValue)],
                                  "calledElement", "set")
                  IN  _updateCalledElementEach(next, ce, oldTemplate, newProperties, i + 1)
             ELSE LET created == Node("zeebe:CalledElement",
                                      [n \in {propertyName} |-> newPropertyValue])
                      next == Emit([d EXCEPT !.values = Append(@, created)],
                                   "calledElement", "create")
                  IN  _updateCalledElementEach(next, Len(next.values), oldTemplate,
                                               newProperties, i + 1)

\* a called-element reconciler that does not look for the node the container holds
_updateCalledElementAnew(d0, oldTemplate, newTemplate) ==
    _updateCalledElementEach(_getOrCreateExtensionElements(d0, "calledElement"), 0, oldTemplate,
                             OfTypes(newTemplate.properties, {ZEEBE_CALLED_ELEMENT}), 1).d

_updateCalledElement(d0, oldTemplate, newTemplate) ==
    LET newProperties == OfTypes(newTemplate.properties, {ZEEBE_CALLED_ELEMENT})
        d == _getOrCreateExtensionElements(d0, "calledElement")
        calledElement == findExtension(d.values, "zeebe:CalledElement")
        oldProperties ==
            SelectSeq(oldTemplate.properties, LAMBDA o :
                /\ o.binding.type = ZEEBE_CALLED_ELEMENT
                /\ ~\E i \in 1..Len(newProperties) :
                      newProperties[i].binding.property = o.binding.property)
    IN  IF Len(newProperties) = 0
        THEN Emit([d EXCEPT !.values = WithoutIndex(@, calledElement)],
                  "calledElement", "remove")
        ELSE LET r == _updateCalledElementEach(d, calledElement, oldTemplate, newProperties, 1)
             IN  ClearNodeFields(r.d, r.ce, oldProperties, "calledElement", 1)

(***************************************************************************)
(* The handler.                                                            *)
(***************************************************************************)
\* the reconcilers preExecute calls before _updateMessage, in its order
ReconcileBeforeMessage(d1, oldTemplate, newTemplate) ==
    TheOnly({_updateZeebePropertyProperties(d6, oldTemplate, newTemplate) :
        d6 \in {_updateZeebeTaskHeaderProperties(d5, oldTemplate, newTemplate) :
        d5 \in {_updateZeebeInputOutputParameterProperties(d4, oldTemplate, newTemplate) :
        d4 \in {_updateZeebeTaskDefinition(d3, oldTemplate, newTemplate) :
        d3 \in {_updateProperties(d2, oldTemplate, newTemplate) :
        d2 \in {_updateElementType(d1, oldTemplate, newTemplate)}}}}}})

\* reconcilers that leave the message for the end
ReconcileMessageLast(d1, oldTemplate, newTemplate) ==
    TheOnly({_updateMessage(d8, oldTemplate, newTemplate) :
        d8 \in {_updateCalledElement(d7, oldTemplate, newTemplate) :
        d7 \in {ReconcileBeforeMessage(d1, oldTemplate, newTemplate)}}})

\* the reconcilers in the order preExecute calls them
Reconcile(d1, oldTemplate, newTemplate) ==
    TheOnly({_updateCalledElement(d8, oldTemplate, newTemplate) :
        d8 \in {_updateMessage(d7, oldTemplate, newTemplate) :
        d7 \in {ReconcileBeforeMessage(d1, oldTemplate, newTemplate)}}})

\* the two stamps preExecute sets first
Stamp(element, newTemplate) ==
    TheOnly({_updateZeebeModelerTemplateIcon(d0, newTemplate) :
        d0 \in {_updateZeebeModelerTemplate([element EXCEPT !.log = <<>>], newTemplate)}})

\* a handler that runs the reconcilers also when newTemplate is left out
preExecuteUnguarded(element, oldTemplate, newTemplate) ==
    TheOnly({Reconcile(d1, oldTemplate, newTemplate) : d1 \in {Stamp(element, newTemplate)}})

preExecute(element, oldTemplate, newTemplate) ==
    TheOnly({IF newTemplate = NoTemplate THEN d1 ELSE Reconcile(d1, oldTemplate, newTemplate) :
                d1 \in {Stamp(element, newTemplate)}})

(***************************************************************************)
(* The inputs: bounded sets of templates and of documents.  Each family of *)
(* binding kinds is exercised over every combination of its own keys,      *)
(* property types, defaults and entries; the reconcilers of different      *)
(* families read and write disjoint parts of the document, and the mixed   *)
(* family runs them together.                                              *)
(***************************************************************************)
MaxProps == 2
MaxCalls == 2

PlainNames == {"name", "versionTag"}
InputTargets == {"x", "y"}
OutputSources == {"=x", "=y"}
HeaderKeys == {"h1", "h2"}
ZeebePropertyNames == {"p1", "p2"}

\* what a field holds before a run: unset, a template default, a value of the user
DocValues == {Undef, "a", "c"}
\* what an entry of a holder holds before a run
EntryValues == {"a", "c"}
\* the defaults of a new template, and of an old one
NewDefaults == {Undef, "b"}
OldDefaults == {Undef, "a"}

Choices == <<"a", "b">>

TypeVariants ==
    {[type |-> "String", hasChoices |-> FALSE, choices |-> <<>>],
     [type |-> "Hidden", hasChoices |-> FALSE, choices |-> <<>>],
     [type |-> "Dropdown", hasChoices |-> TRUE, choices |-> Choices]}

ChoicelessDropdown == [type |-> "Dropdown", hasChoices |-> FALSE, choices |-> <<>>]

PlainBindings == {Binding(PROPERTY_TYPE, n, Undef, Undef, Undef) : n \in PlainNames}
TaskDefinitionBindings ==
    {Binding(ZEEBE_TASK_DEFINITION_TYPE_TYPE, Undef, Undef, Undef, Undef)} \cup
    {Binding(ZEEBE_TASK_DEFINITION, Undef, Undef, Undef, f) : f \in TaskDefinitionFields}
InputBindings == {Binding(ZEEBE_INPUT_TYPE, n, Undef, Undef, Undef) : n \in InputTargets}
OutputBindings == {Binding(ZEEBE_OUTPUT_TYPE, Undef, e, Undef, Undef) : e \in OutputSources}
HeaderBindings == {Binding(ZEEBE_TASK_HEADER_TYPE, Undef, Undef, k, Undef) : k \in HeaderKeys}
ZeebePropertyBindings ==
    {Binding(ZEEBE_PROPERTY_TYPE, n, Undef, Undef, Undef) : n \in ZeebePropertyNames}
CalledElementBindings ==
    {Binding(ZEEBE_CALLED_ELEMENT, Undef, Undef, Undef, f) : f \in CalledElementFields}
MessageBindings == {Binding(MESSAGE_PROPERTY_TYPE, n, Undef, Undef, Undef) : n \in MessageFields}
SubscriptionBindings ==
    {Binding(MESSAGE_ZEEBE_SUBSCRIPTION_PROPERTY_TYPE, n, Undef, Undef, Undef) :
        n \in SubscriptionFields}

\* the properties a new template is made of; optional decides in shouldUpdate only,
\* and there for an empty default, so a default that is given is never optional
NewProps(bindings, variants, optionals) ==
    {p \in {Property(tv.type, v, tv.hasChoices, tv.choices, o, b) :
                tv \in variants, v \in NewDefaults, o \in optionals, b \in bindings} :
        p.optional => ~Truthy(p.value)}

\* the properties that follow the first one in a new template: required, with a default
MoreProps(bindings) ==
    {Property(t, "b", FALSE, <<>>, FALSE, b) : t \in {"String", "Hidden"}, b \in bindings}

\* of an old property the handler reads the binding and the default only
OldProps(bindings, defaults) ==
    {Property("String", v, FALSE, <<>>, FALSE, b) : v \in defaults, b \in bindings}

SeqsUpTo(S, n) == UNION {[1..k -> S] : k \in 0..n}

\* the lists of at most n properties: none, or one of first followed by some of more
RECURSIVE PropertyLists(_, _, _)
PropertyLists(first, more, n) ==
    IF n = 0 THEN {<<>>}
    ELSE IF n = 1 THEN {<<>>} \cup {<<p>> : p \in first}
    ELSE LET shorter == PropertyLists(first, more, n - 1)
         IN  shorter \cup {Append(ps, q) : ps \in {l \in shorter : Len(l) = n - 1}, q \in more}

NewTemplates(props, more) ==
    {Template("t2", "2", Undef, NoElementType, ps) : ps \in PropertyLists(props, more, MaxProps)}

OldTemplates(props) ==
    {NoTemplate} \cup
    {Template("t1", "1", Undef, NoElementType, ps) : ps \in SeqsUpTo(props, MaxProps)}

BlankElement ==
    [modelerTemplate |-> Undef, modelerTemplateVersion |-> Undef, modelerTemplateIcon |-> Undef,
     type |-> [value |-> "bpmn:Task", eventDefinition |-> Undef],
     attrs |-> [n \in PlainNames |-> Undef],
     hasExt |-> FALSE, values |-> <<>>,
     hasMsg |-> FALSE, msg |-> NoMessage,
     ref |-> 0,
     log |-> <<>>]

WithValues(values) == [BlankElement EXCEPT !.hasExt = TRUE, !.values = values]

\* the lists of entries with pairwise distinct keys, at most two of them
EntryLists(keySlot, valueSlot, keys) ==
    LET Entry(k, v) == (keySlot :> k) @@ (valueSlot :> v)
    IN
    {<<>>} \cup {<<Entry(k, v)>> : k \in keys, v \in EntryValues}
           \cup UNION {{<<Entry(k1, v1), Entry(k2, v2)>> :
                            k2 \in keys \ {k1}, v1 \in EntryValues, v2 \in EntryValues} :
                        k1 \in keys}

\* a container without a node, or with the one node of a singleton kind
SingletonDocs(kind, field1, field2) ==
    {BlankElement, WithValues(<<>>)} \cup
    {WithValues(<<Node(kind, [n \in {field1, field2} |-> IF n = field1 THEN v1 ELSE v2])>>) :
        v1 \in DocValues, v2 \in {Undef, "c"}}

HolderDocs(kind, list, entries) ==
    {WithValues(<<[Node(kind, <<>>) EXCEPT ![list] = es]>>) : es \in entries}

PlainDocs == {[BlankElement EXCEPT !.attrs = a] : a \in [PlainNames -> DocValues]}

MessageDocs ==
    {BlankElement} \cup
    {[BlankElement EXCEPT !.hasMsg = TRUE,
                          !.msg = [NewMessage(t) EXCEPT !.attrs =
                                     [n \in MessageFields |-> IF n = "name" THEN v1 ELSE v2]]] :
        t \in {"t1", "t2"}, v1 \in DocValues, v2 \in {Undef, "c"}}

SubscriptionDocs ==
    {BlankElement,
     [BlankElement EXCEPT !.hasMsg = TRUE, !.msg = NewMessage("t1")],
     [BlankElement EXCEPT !.hasMsg = TRUE, !.msg = [NewMessage("t1") EXCEPT !.hasExt = TRUE]]} \cup
    {[BlankElement EXCEPT
        !.hasMsg = TRUE,
        !.msg = [NewMessage("t1") EXCEPT
                    !.hasExt = TRUE,
                    !.values = <<Node("zeebe:Subscription",
                                      [n \in SubscriptionFields |->
                                          IF n = "correlationKey" THEN v1 ELSE v2])>>]] :
        v1 \in DocValues, v2 \in {Undef, "c"}}

(***************************************************************************)
(* The identity family: templates without properties that differ in id,    *)
(* version, icon and element type, on elements with and without stamps.    *)
(***************************************************************************)
ElementTypes ==
    {NoElementType,
     [value |-> "bpmn:ServiceTask", eventDefinition |-> Undef],
     [value |-> "bpmn:IntermediateCatchEvent", eventDefinition |-> "bpmn:MessageEventDefinition"],
     [value |-> "bpmn:IntermediateCatchEvent", eventDefinition |-> "bpmn:TimerEventDefinition"]}

IdentityTemplates ==
    {Template(id, version, icon, et, <<>>) :
        id \in {"t1", "t2"}, version \in {"1", "2"}, icon \in {Undef, "icon"}, et \in ElementTypes}

IdentityDocs ==
    {BlankElement,
     [BlankElement EXCEPT !.modelerTemplate = "t1", !.modelerTemplateVersion = "1"],
     [BlankElement EXCEPT !.modelerTemplate = "t1", !.modelerTemplateVersion = "1",
                          !.modelerTemplateIcon = "icon"]}

(***************************************************************************)
(* The mixed family: one property of every binding kind in one template,   *)
(* on a blank element and on one that holds a node and an entry of every   *)
(* kind.                                                                   *)
(***************************************************************************)
OneOfEach(type, value) ==
    <<Property(type, value, FALSE, <<>>, FALSE, Binding(PROPERTY_TYPE, "name", Undef, Undef, Undef)),
      Property(type, value, FALSE, <<>>, FALSE,
               Binding(ZEEBE_TASK_DEFINITION_TYPE_TYPE, Undef, Undef, Undef, Undef)),
      Property(type, value, FALSE, <<>>, FALSE, Binding(ZEEBE_INPUT_TYPE, "x", Undef, Undef, Undef)),
      Property(type, value, FALSE, <<>>, FALSE, Binding(ZEEBE_OUTPUT_TYPE, Undef, "=x", Undef, Undef)),
      Property(type, value, FALSE, <<>>, FALSE,
               Binding(ZEEBE_TASK_HEADER_TYPE, Undef, Undef, "h1", Undef)),
      Property(type, value, FALSE, <<>>, FALSE, Binding(ZEEBE_PROPERTY_TYPE, "p1", Undef, Undef, Undef)),
      Property(type, value, FALSE, <<>>, FALSE,
               Binding(MESSAGE_PROPERTY_TYPE, "name", Undef, Undef, Undef)),
      Property(type, value, FALSE, <<>>, FALSE,
               Binding(MESSAGE_ZEEBE_SUBSCRIPTION_PROPERTY_TYPE, "correlationKey", Undef, Undef, Undef)),
      Property(type, value, FALSE, <<>>, FALSE,
               Binding(ZEEBE_CALLED_ELEMENT, Undef, Undef, Undef, "processId"))>>

FullElement(v) ==
    [BlankElement EXCEPT
        !.modelerTemplate = "t1", !.modelerTemplateVersion = "1",
        !.attrs = [n \in PlainNames |-> v],
        !.hasExt = TRUE,
        !.values =
            <<[Node("zeebe:IoMapping", <<>>) EXCEPT
                  !.inputParameters = <<[source |-> v, target |-> "x"], [source |-> v, target |-> "y"]>>,
                  !.outputParameters = <<[source |-> "=y", target |-> v], [source |-> "=x", target |-> v]>>],
              Node("zeebe:TaskDefinition", [n \in TaskDefinitionFields |-> v]),
              [Node("zeebe:TaskHeaders", <<>>) EXCEPT
                  !.values = <<[key |-> "h2", value |-> v], [key |-> "h1", value |-> v]>>],
              Node("zeebe:CalledElement", [n \in CalledElementFields |-> v]),
              [Node("zeebe:Properties", <<>>) EXCEPT
                  !.properties = <<[name |-> "p1", value |-> v], [name |-> "p2", value |-> v]>>]>>,
        !.hasMsg = TRUE,
        !.msg = [NewMessage("t1") EXCEPT
                    !.attrs = [n \in MessageFields |-> v],
                    !.hasExt = TRUE,
                    !.values = <<Node("zeebe:Subscription", [n \in SubscriptionFields |-> v])>>]]

MixedTemplates(id) ==
    {Template(id, "1", Undef, et, ps) :
        et \in {NoElementType, [value |-> "bpmn:ServiceTask", eventDefinition |-> Undef]},
        ps \in {<<>>} \cup {OneOfEach(t, v) : t \in {"String", "Hidden"}, v \in {Undef, "a", "b"}}
                      \cup {SubSeq(OneOfEach("String", "b"), 1, n) : n \in 1..8}
                      \cup {SubSeq(OneOfEach("String", "b"), n, 9) : n \in 2..9}}

Families ==
    {[name |-> "identity", docs |-> IdentityDocs,
      olds |-> {NoTemplate} \cup IdentityTemplates, news |-> IdentityTemplates],
     [name |-> "mixed", docs |-> {BlankElement} \cup {FullElement(v) : v \in DocValues},
      olds |-> {NoTemplate} \cup MixedTemplates("t1"), news |-> MixedTemplates("t2")],
     [name |-> "plain", docs |-> PlainDocs,
      olds |-> OldTemplates(OldProps(PlainBindings, OldDefaults)),
      news |-> NewTemplates(NewProps(PlainBindings, TypeVariants \cup {ChoicelessDropdown}, {FALSE}),
                           MoreProps(PlainBindings))],
     [name |-> "taskDefinition",
      docs |-> SingletonDocs("zeebe:TaskDefinition", "type", "retries"),
      olds |-> OldTemplates(OldProps(TaskDefinitionBindings, {"a"})),
      news |-> NewTemplates(NewProps(TaskDefinitionBindings, TypeVariants, {FALSE}),
                           MoreProps(TaskDefinitionBindings))],
     [name |-> "input",
      docs |-> {BlankElement} \cup
               HolderDocs("zeebe:IoMapping", "inputParameters",
                          EntryLists("target", "source", InputTargets)),
      olds |-> OldTemplates(OldProps(InputBindings, {"a"})),
      news |-> NewTemplates(NewProps(InputBindings, TypeVariants, BOOLEAN),
                           MoreProps(InputBindings))],
     [name |-> "output",
      docs |-> {BlankElement} \cup
               HolderDocs("zeebe:IoMapping", "outputParameters",
                          EntryLists("source", "target", OutputSources)),
      olds |-> OldTemplates(OldProps(OutputBindings, {"a"})),
      news |-> NewTemplates(NewProps(OutputBindings, TypeVariants, BOOLEAN),
                           MoreProps(OutputBindings))],
     [name |-> "taskHeader",
      docs |-> {BlankElement} \cup
               HolderDocs("zeebe:TaskHeaders", "values",
                          EntryLists("key", "value", HeaderKeys)),
      olds |-> OldTemplates(OldProps(HeaderBindings, {"a"})),
      news |-> NewTemplates(NewProps(HeaderBindings, TypeVariants, BOOLEAN),
                           MoreProps(HeaderBindings))],
     [name |-> "zeebeProperty",
      docs |-> {BlankElement} \cup
               HolderDocs("zeebe:Properties", "properties",
                          EntryLists("name", "value", ZeebePropertyNames)),
      olds |-> OldTemplates(OldProps(ZeebePropertyBindings, {"a"})),
      news |-> NewTemplates(NewProps(ZeebePropertyBindings, TypeVariants, BOOLEAN),
                           MoreProps(ZeebePropertyBindings))],
     [name |-> "message", docs |-> MessageDocs,
      olds |-> OldTemplates(OldProps(MessageBindings, {"a"})),
      news |-> NewTemplates(NewProps(MessageBindings, TypeVariants, BOOLEAN),
                           MoreProps(MessageBindings))],
     [name |-> "subscription", docs |-> SubscriptionDocs,
      olds |-> OldTemplates(OldProps(SubscriptionBindings, {"a"})),
      news |-> NewTemplates(NewProps(SubscriptionBindings, TypeVariants, {FALSE}),
                           MoreProps(SubscriptionBindings))],
     [name |-> "calledElement",
      docs |-> SingletonDocs("zeebe:CalledElement", "processId", "propagateAllChildVariables"),
      olds |-> OldTemplates(OldProps(CalledElementBindings, {"a"})),
      news |-> NewTemplates(NewProps(CalledElementBindings, TypeVariants, {FALSE}),
                           MoreProps(CalledElementBindings))]}

\* the document without the record of the last run's mutations
Content(d) == [d EXCEPT !.log = <<>>]

(***************************************************************************)
(* The state machine: the command stack executes the handler on the        *)
(* element, one run at a time.                                             *)
(***************************************************************************)
\* no creation event was the last operation
NoEvent ==
    [createElementsBehavior |-> Undef, get |-> NoTemplate, getDefault |-> NoTemplate, calls |-> 0]

Init ==
    /\ doc \in UNION {f.docs : f \in Families}
    /\ pre = doc
    /\ oldT = NoTemplate
    /\ newT = NoTemplate
    /\ calls = 0
    /\ last = "init"
    /\ event = NoEvent

\* commandStack.execute('propertiesPanel.zeebe.changeTemplate', context): the handler runs
Run(old, new, what) ==
    /\ pre' = Content(doc)
    /\ doc' = preExecute(doc, old, new)
    /\ oldT' = old
    /\ newT' = new
    /\ calls' = calls + 1
    /\ last' = what

\* no operation has touched the element yet.  A creation event that applies nothing
\* leaves the element as it was, so what may follow it is what may follow Init
Untouched == calls = 0 /\ last = "init"

\* propertiesPanel.zeebe.changeTemplate: a template is applied, or replaces an old one
ChangeTemplate ==
    /\ Untouched
    /\ event' = NoEvent
    /\ \E f \in Families :
          /\ doc \in f.docs
          /\ \E old \in f.olds, new \in f.news : Run(old, new, "change")

\* the template the element carries is applied once more (oldTemplate = newTemplate)
ReapplyTemplate ==
    /\ calls \in 1..(MaxCalls - 1)
    /\ newT # NoTemplate
    /\ event' = NoEvent
    /\ Run(newT, newT, "reapply")

\* the template is removed: newTemplate is left out
RemoveTemplate ==
    /\ calls < MaxCalls
    /\ calls = 0 => Untouched
    /\ event' = NoEvent
    /\ \E old \in IF calls = 0
                  THEN UNION {f.olds : f \in {g \in Families : doc \in g.docs}}
                  ELSE {NoTemplate, newT} :
          Run(old, NoTemplate, "remove")

(***************************************************************************)
(* Default templates on creation.  elementTemplates stands for the answers *)
(* of the element templates service for the created element: get, the      *)
(* template the element carries, and getDefault, the default template of   *)
(* its kind; NoTemplate is the answer undefined.                           *)
(***************************************************************************)
\* an applyDefaultTemplate that does not ask whether the element carries a template
applyDefaultTemplateUnasked(element, elementTemplates, what) ==
    IF elementTemplates.getDefault # NoTemplate
    THEN Run(NoTemplate, elementTemplates.getDefault, what)
    ELSE last' = what /\ UNCHANGED <<doc, pre, oldT, newT, calls>>

applyDefaultTemplate(element, elementTemplates, what) ==
    IF elementTemplates.get = NoTemplate /\ elementTemplates.getDefault # NoTemplate
    THEN Run(NoTemplate, elementTemplates.getDefault, what)
    ELSE last' = what /\ UNCHANGED <<doc, pre, oldT, newT, calls>>

\* hints.createElementsBehavior of a creation event: left out, false or true
CreateElementsBehaviors == {Undef, "false", "true"}

\* what get answers for an element: nothing, or the template its stamps name
Carried(element) ==
    {NoTemplate} \cup
    (IF element.modelerTemplate = Undef THEN {}
     ELSE {Template(element.modelerTemplate, element.modelerTemplateVersion, Undef,
                    NoElementType, <<>>)})

\* what getDefault answers for an element: nothing, or a template of the element's family
DefaultTemplates(element) ==
    {NoTemplate} \cup
    {t \in UNION {f.news : f \in {g \in Families : element \in g.docs}} :
        Len(t.properties) <= 1}

\* the listener of a creation event of the given name
CreatePostExecuted(what) ==
    /\ Untouched
    /\ \E createElementsBehavior \in CreateElementsBehaviors,
          get \in Carried(doc), getDefault \in DefaultTemplates(doc) :
          /\ event' = [createElementsBehavior |-> createElementsBehavior, get |-> get,
                       getDefault |-> getDefault, calls |-> calls]
          /\ IF createElementsBehavior # "false"
             THEN applyDefaultTemplate(doc, [get |-> get, getDefault |-> getDefault], what)
             ELSE last' = what /\ UNCHANGED <<doc, pre, oldT, newT, calls>>

\* commandStack.shape.create.postExecuted
ShapeCreatePostExecuted == CreatePostExecuted("shape.create")

\* commandStack.connection.create.postExecuted
ConnectionCreatePostExecuted == CreatePostExecuted("connection.create")

Next ==
    \/ ChangeTemplate
    \/ ReapplyTemplate
    \/ RemoveTemplate
    \/ ShapeCreatePostExecuted
    \/ ConnectionCreatePostExecuted

Spec == Init /\ [][Next]_vars

(***************************************************************************)
(* Vocabulary of the properties below.  They speak of the last run: pre is *)
(* the document it started from, oldT and newT its templates, doc its      *)
(* result.                                                                 *)
(***************************************************************************)
\* the last run applied a template (newTemplate was given)
Applied == last \in {"change", "reapply"}

\* the properties of a template that are bound to one plain field
PlainFor(template, n) ==
    SelectSeq(template.properties, LAMBDA p :
        p.binding.type = PROPERTY_TYPE /\ p.binding.name = n)

\* every property of the list is a free-form editor: neither Hidden nor Dropdown
Editable(properties) ==
    /\ Len(properties) > 0
    /\ \A i \in 1..Len(properties) : properties[i].type \notin {"Hidden", "Dropdown"}

Defaults(properties) == {properties[i].value : i \in 1..Len(properties)}

\* C1 (keep-on-edit): a plain field that the new template binds with free-form
\* properties only and that the old template binds too, and whose value differed from
\* the old template's default when the run started, holds the same value after the run,
\* whatever the new default is.
C1_KeepOnEdit ==
    \A n \in DOMAIN pre.attrs :
        (/\ Applied
         /\ Editable(PlainFor(newT, n))
         /\ Len(PlainFor(oldT, n)) > 0
         /\ pre.attrs[n] # PlainFor(oldT, n)[1].value)
        => doc.attrs[n] = pre.attrs[n]

C1_Witness ==
    \E n \in DOMAIN pre.attrs :
        /\ last = "change"
        /\ Editable(PlainFor(newT, n))
        /\ Len(PlainFor(oldT, n)) > 0
        /\ PlainFor(oldT, n)[1].value = "a"
        /\ pre.attrs[n] = "c"
        /\ PlainFor(newT, n)[1].value = "b"
        /\ doc.attrs[n] = "c"

\* C2 (overwrite-on-unedited): a plain field that the new template binds with free-form
\* properties only and that the old template binds too, and whose value equalled the old
\* template's default when the run started, holds a default the new template gives that
\* field after the run (the new default, when the template binds the field once).
C2_OverwriteOnUnedited ==
    \A n \in DOMAIN pre.attrs :
        (/\ Applied
         /\ Editable(PlainFor(newT, n))
         /\ Len(PlainFor(oldT, n)) > 0
         /\ pre.attrs[n] = PlainFor(oldT, n)[1].value)
        => doc.attrs[n] \in Defaults(PlainFor(newT, n))

C2_Witness ==
    \E n \in DOMAIN pre.attrs :
        /\ last = "change"
        /\ Len(PlainFor(newT, n)) = 1
        /\ Editable(PlainFor(newT, n))
        /\ Len(PlainFor(oldT, n)) > 0
        /\ PlainFor(oldT, n)[1].value = "a"
        /\ pre.attrs[n] = "a"
        /\ PlainFor(newT, n)[1].value = "b"
        /\ doc.attrs[n] = "b"

\* C3 (idempotence): applying the template the element carries once more, with
\* oldTemplate = newTemplate, leaves the document as the first application left it.
C3_Idempotence == last = "reapply" => Content(doc) = pre

\* the value slot a property is bound to: its binding kind and identity key
Slot(p) ==
    LET b == p.binding
    IN  IF b.type = PROPERTY_TYPE THEN <<"property", b.name>>
        ELSE IF b.type \in TASK_DEFINITION_TYPES
             THEN <<"taskDefinition", IF b.type = ZEEBE_TASK_DEFINITION THEN b.property ELSE "type">>
        ELSE IF b.type = ZEEBE_INPUT_TYPE THEN <<"input", b.name>>
        ELSE IF b.type = ZEEBE_OUTPUT_TYPE THEN <<"output", b.source>>
        ELSE IF b.type = ZEEBE_TASK_HEADER_TYPE THEN <<"taskHeader", b.key>>
        ELSE IF b.type = ZEEBE_PROPERTY_TYPE THEN <<"zeebeProperty", b.name>>
        ELSE IF b.type = ZEEBE_CALLED_ELEMENT THEN <<"calledElement", b.property>>
        ELSE IF b.type = MESSAGE_PROPERTY_TYPE THEN <<"message", b.name>>
        ELSE <<"subscription", b.name>>

\* the template binds the slot of property p once
BoundOnce(template, p) ==
    Cardinality({i \in 1..Len(template.properties) :
                    Slot(template.properties[i]) = Slot(p)}) = 1

IdentityLog ==
    <<[step |-> "identity", op |-> "modelerTemplate", element |-> pre.ref],
      [step |-> "identity", op |-> "modelerTemplateIcon", element |-> pre.ref]>>

\* C4 (removal leaves content untouched): a run without newTemplate issues the two
\* stamp mutations and nothing else, and the document after it is the document before
\* it with the three stamps undefined.
C4_RemovalKeepsContent ==
    last = "remove" =>
        /\ doc.log = IdentityLog
        /\ Content(doc) = [pre EXCEPT !.modelerTemplate = Undef,
                                      !.modelerTemplateVersion = Undef,
                                      !.modelerTemplateIcon = Undef]

C4_Witness ==
    /\ last = "remove"
    /\ oldT # NoTemplate
    /\ pre.modelerTemplate # Undef
    /\ Len(pre.values) > 0
    /\ pre.hasMsg
    /\ doc.modelerTemplate = Undef
    /\ doc.values = pre.values

HolderKinds ==
    {[kind |-> "zeebe:IoMapping", types |-> {ZEEBE_INPUT_TYPE, ZEEBE_OUTPUT_TYPE}, step |-> "ioMapping"],
     [kind |-> "zeebe:TaskHeaders", types |-> {ZEEBE_TASK_HEADER_TYPE}, step |-> "taskHeaders"],
     [kind |-> "zeebe:Properties", types |-> {ZEEBE_PROPERTY_TYPE}, step |-> "zeebeProperties"]}

HasNode(values, kind) == \E i \in 1..Len(values) : values[i].kind = kind

\* C6 (shrink-to-empty holder removal): when the element had a holder of a keyed-collection
\* kind and the new template has no property of that kind, the container holds no holder
\* of that kind after the run, and the run created none.
C6_HolderRemoved ==
    \A h \in HolderKinds :
        (/\ Applied
         /\ HasNode(pre.values, h.kind)
         /\ Len(OfTypes(newT.properties, h.types)) = 0)
        => /\ ~HasNode(doc.values, h.kind)
           /\ \A i \in 1..Len(doc.log) : ~(doc.log[i].step = h.step /\ doc.log[i].op = "createHolder")

C6_Witness ==
    \E h \in HolderKinds :
        /\ last = "change"
        /\ \E i \in 1..Len(pre.values) :
              /\ pre.values[i].kind = h.kind
              /\ Len(pre.values[i].values) + Len(pre.values[i].inputParameters)
                    + Len(pre.values[i].properties) > 1
        /\ Len(OfTypes(oldT.properties, h.types)) > 0
        /\ Len(OfTypes(newT.properties, h.types)) = 0
        /\ ~HasNode(doc.values, h.kind)

\* C10 (identity stamp): after every run the element's three stamps are the new
\* template's id, version and icon contents, and undefined when newTemplate is left out.
C10_IdentityStamp ==
    calls > 0 =>
        /\ doc.modelerTemplate = (IF newT = NoTemplate THEN Undef ELSE newT.id)
        /\ doc.modelerTemplateVersion = (IF newT = NoTemplate THEN Undef ELSE newT.version)
        /\ doc.modelerTemplateIcon = (IF newT = NoTemplate THEN Undef ELSE newT.icon)

C10_Witness ==
    /\ last = "change"
    /\ pre.modelerTemplate = "t1"
    /\ pre.modelerTemplateIcon = "icon"
    /\ oldT.id = "t1"
    /\ newT.id = "t2"
    /\ newT.icon = Undef
    /\ doc.modelerTemplate = "t2"
    /\ doc.modelerTemplateIcon = Undef

\* the entry lists of the holder of a kind; the lists of an empty holder when there is none
HolderOf(values, kind) ==
    LET h == findExtension(values, kind)
    IN  IF h = 0 THEN Node(kind, <<>>) ELSE values[h]

\* what document d holds in the slot property p is bound to: whether the node or entry
\* that carries the slot exists, and the value it has (undefined when it does not exist)
SlotRead(d, p) ==
    LET b == p.binding
        OfNode(values, kind, field) ==
            LET n == findExtension(values, kind)
            IN  IF n = 0 THEN [exists |-> FALSE, value |-> Undef]
                ELSE [exists |-> TRUE, value |-> values[n].attrs[field]]
        OfEntry(list, slot, wanted, held) ==
            LET e == FindIndex([i \in 1..Len(list) |-> list[i][slot] = wanted])
            IN  IF e = 0 THEN [exists |-> FALSE, value |-> Undef]
                ELSE [exists |-> TRUE, value |-> list[e][held]]
    IN  IF b.type = PROPERTY_TYPE THEN [exists |-> TRUE, value |-> d.attrs[b.name]]
        ELSE IF b.type \in TASK_DEFINITION_TYPES
             THEN OfNode(d.values, "zeebe:TaskDefinition", getTaskDefinitionPropertyName(b))
        ELSE IF b.type = ZEEBE_INPUT_TYPE
             THEN OfEntry(HolderOf(d.values, "zeebe:IoMapping").inputParameters,
                          "target", b.name, "source")
        ELSE IF b.type = ZEEBE_OUTPUT_TYPE
             THEN OfEntry(HolderOf(d.values, "zeebe:IoMapping").outputParameters,
                          "source", b.source, "target")
        ELSE IF b.type = ZEEBE_TASK_HEADER_TYPE
             THEN OfEntry(HolderOf(d.values, "zeebe:TaskHeaders").values, "key", b.key, "value")
        ELSE IF b.type = ZEEBE_PROPERTY_TYPE
             THEN OfEntry(HolderOf(d.values, "zeebe:Properties").properties,
                          "name", b.name, "value")
        ELSE IF b.type = ZEEBE_CALLED_ELEMENT
             THEN OfNode(d.values, "zeebe:CalledElement", b.property)
        ELSE IF b.type = MESSAGE_PROPERTY_TYPE
             THEN [exists |-> d.hasMsg, value |-> d.msg.attrs[b.name]]
        ELSE OfNode(d.msg.values, "zeebe:Subscription", b.name)

\* the input properties of a template with one target, and the input parameters of a
\* document with that target
InputsFor(template, t) ==
    IF template = NoTemplate THEN <<>>
    ELSE SelectSeq(template.properties, LAMBDA p :
            p.binding.type = ZEEBE_INPUT_TYPE /\ p.binding.name = t)

InputEntries(d, t) ==
    SelectSeq(HolderOf(d.values, "zeebe:IoMapping").inputParameters, LAMBDA e : e.target = t)

\* the case of C5: both templates have an input with target t, the new template one, with
\* another default source, and the element holds the entry the old template made
SameTargetNewSource(t) ==
    /\ Applied
    /\ Len(InputsFor(oldT, t)) > 0
    /\ Len(InputsFor(newT, t)) = 1
    /\ InputsFor(newT, t)[1].value # InputsFor(oldT, t)[1].value
    /\ Len(InputEntries(pre, t)) = 1
    /\ InputEntries(pre, t)[1].source = InputsFor(oldT, t)[1].value

\* C5 as stated (input mapping identity): in that case the holder has exactly one input
\* parameter with the target after the run, and its source is the new default.
C5_InputMappingIdentity ==
    \A t \in InputTargets :
        SameTargetNewSource(t) =>
            /\ Len(InputEntries(doc, t)) = 1
            /\ InputEntries(doc, t)[1].source = InputsFor(newT, t)[1].value

\* the new input property takes the entry over: it is not a Dropdown that lists the
\* entry's source among its choices, and it is required or has a non-empty default
TakesOver(p, source) ==
    /\ ~(p.type = "Dropdown" /\ p.hasChoices
          /\ \E i \in 1..Len(p.choices) : p.choices[i] = source)
    /\ shouldUpdate(getDefaultValue(p), p)

\* C5 (input mapping identity, amended): in the case of C5, when the new input property
\* is not a Dropdown listing the old default among its choices and is required or has a
\* non-empty default, the holder has exactly one input parameter with the target after
\* the run and its source is the new default.
C5_InputMappingUpdated ==
    \A t \in InputTargets :
        (/\ SameTargetNewSource(t)
         /\ TakesOver(InputsFor(newT, t)[1], InputEntries(pre, t)[1].source))
        => /\ Len(InputEntries(doc, t)) = 1
           /\ InputEntries(doc, t)[1].source = InputsFor(newT, t)[1].value

C5_Witness ==
    /\ last = "change"
    /\ SameTargetNewSource("x")
    /\ InputsFor(newT, "x")[1].type = "String"
    /\ InputsFor(newT, "x")[1].value = "b"
    /\ Len(HolderOf(pre.values, "zeebe:IoMapping").inputParameters) = 2
    /\ InputEntries(pre, "x")[1].source = "a"
    /\ Len(InputEntries(doc, "x")) = 1
    /\ InputEntries(doc, "x")[1].source = "b"

\* C7 (Dropdown stale-choice reset): for a Dropdown property of the new template, bound
\* to a slot whose node or entry existed when the run started, the slot holds after the
\* run the value it held before when that value is one of the property's choices, and the
\* new default otherwise (also when the property has no choices).
C7_DropdownReset ==
    Applied =>
        \A i \in 1..Len(newT.properties) :
            LET p == newT.properties[i]
                current == SlotRead(pre, p).value
            IN  (p.type = "Dropdown" /\ BoundOnce(newT, p) /\ SlotRead(pre, p).exists)
                => SlotRead(doc, p).value =
                       IF p.hasChoices /\ \E c \in 1..Len(p.choices) : p.choices[c] = current
                       THEN current ELSE getDefaultValue(p)

\* C8 (Hidden is constant): for a Hidden property of the new template, of any binding
\* kind, bound to a slot whose node or entry existed when the run started, the slot holds
\* the new template's default after the run.
C8_HiddenConstant ==
    Applied =>
        \A i \in 1..Len(newT.properties) :
            LET p == newT.properties[i]
            IN  (p.type = "Hidden" /\ BoundOnce(newT, p) /\ SlotRead(pre, p).exists)
                => SlotRead(doc, p).value = getDefaultValue(p)

\* the old template has no property of the kind and identity key of property p
NoOldMatch(p) ==
    \/ oldT = NoTemplate
    \/ \A i \in 1..Len(oldT.properties) : Slot(oldT.properties[i]) # Slot(p)

\* C9 (newly introduced field): for a free-form property of the new template without a
\* matching old property, the slot holds after the run the value it held before when that
\* value is non-empty, and the new default otherwise.
C9_NewField ==
    Applied =>
        \A i \in 1..Len(newT.properties) :
            LET p == newT.properties[i]
                current == SlotRead(pre, p).value
            IN  (p.type \notin {"Hidden", "Dropdown"} /\ BoundOnce(newT, p) /\ NoOldMatch(p))
                => SlotRead(doc, p).value =
                       IF Truthy(current) THEN current ELSE getDefaultValue(p)

\* the number of times the last run asked the type-replacement collaborator
Replacements == Cardinality({i \in 1..Len(doc.log) : doc.log[i].step = "elementType"})

\* the mutations of the family reconcilers of the last run all went to element reference r
ReconcilersOn(r) ==
    \A i \in 1..Len(doc.log) :
        doc.log[i].step \notin {"identity", "elementType"} => doc.log[i].element = r

\* C11 as stated (type replacement): with newTemplate present the type is replaced exactly
\* once iff the element types of the two templates differ, an absent side counting as
\* different, and then every reconciler works on the returned element.
C11_TypeReplacement ==
    Applied =>
        /\ Replacements = 1 <=> oldT.elementType # newT.elementType
        /\ oldT.elementType = newT.elementType => Replacements = 0
        /\ Replacements > 0 => doc.ref # pre.ref /\ ReconcilersOn(doc.ref)

\* C11 (type replacement, when the new template names a type): with newTemplate present
\* the type is replaced exactly once iff newTemplate has an element type and it differs
\* from oldTemplate's (in value or event definition, an absent old side counting as
\* different), and never otherwise; when replaced, the element of the context is the
\* returned one, of the new type, and every reconciler mutation is issued for it.
C11_TypeReplacementWhenGiven ==
    Applied =>
        /\ Replacements = 1 <=>
                (newT.elementType # NoElementType /\ oldT.elementType # newT.elementType)
        /\ Replacements <= 1
        /\ Replacements = 0 => doc.ref = pre.ref /\ doc.type = pre.type
        /\ Replacements = 1 =>
                /\ doc.ref # pre.ref
                /\ doc.type = newT.elementType
                /\ ReconcilersOn(doc.ref)

C11_Witness ==
    /\ last = "change"
    /\ oldT.elementType # NoElementType
    /\ oldT.elementType.value = newT.elementType.value
    /\ oldT.elementType.eventDefinition # newT.elementType.eventDefinition
    /\ Replacements = 1
    /\ doc.ref # pre.ref
    /\ \E i \in 1..Len(doc.log) :
          doc.log[i].step = "calledElement" /\ doc.log[i].element = doc.ref
    /\ \E i \in 1..Len(doc.log) :
          doc.log[i].step = "identity" /\ doc.log[i].element = pre.ref

\* the steps of a run in the order preExecute and _updateMessage sequence them
StepOrder ==
    <<"identity", "elementType", "properties", "taskDefinition", "ioMapping", "taskHeaders",
      "zeebeProperties", "message", "subscription", "messageStamp", "removeMessage",
      "calledElement">>

StepRank(step) == CHOOSE k \in 1..Len(StepOrder) : StepOrder[k] = step

\* C12 (fixed step order): in a run with newTemplate present every mutation belongs to
\* one of the twelve steps, and no mutation of a later step is issued before a mutation
\* of an earlier step.
C12_StepOrder ==
    Applied =>
        /\ \A i \in 1..Len(doc.log) : \E k \in 1..Len(StepOrder) : StepOrder[k] = doc.log[i].step
        /\ \A i, j \in 1..Len(doc.log) :
              i < j => StepRank(doc.log[i].step) <= StepRank(doc.log[j].step)

\* a run that issues mutations in every one of the twelve steps
C12_Witness ==
    /\ last = "change"
    /\ \A k \in 1..Len(StepOrder) : \E i \in 1..Len(doc.log) : doc.log[i].step = StepOrder[k]
    /\ \E i \in 1..Len(doc.log) : doc.log[i].step = "subscription" /\ doc.log[i].op = "clear"

\* the positions of the last run's mutations of a step
StepAt(step) == {i \in 1..Len(doc.log) : doc.log[i].step = step}

\* the new template of the last run has a property of a message binding kind
BindsMessage ==
    \E i \in 1..Len(newT.properties) :
        newT.properties[i].binding.type
            \in {MESSAGE_PROPERTY_TYPE, MESSAGE_ZEEBE_SUBSCRIPTION_PROPERTY_TYPE}

\* C13 (remove-message cleanup): in a run with newTemplate present removeMessage is
\* invoked once, after every mutation of the message-field, subscription and stamp-sync
\* steps, iff newTemplate has no property of a message binding kind; it is not invoked
\* when newTemplate has one.
C13_RemoveMessage ==
    Applied =>
        /\ Cardinality(StepAt("removeMessage")) = (IF BindsMessage THEN 0 ELSE 1)
        /\ \A r \in StepAt("removeMessage") :
              \A i \in StepAt("message") \cup StepAt("subscription") \cup StepAt("messageStamp") :
                  i < r

C13_Witness ==
    /\ last = "change"
    /\ ~BindsMessage
    /\ pre.hasMsg
    /\ StepAt("message") # {}
    /\ StepAt("messageStamp") # {}
    /\ Cardinality(StepAt("removeMessage")) = 1
    /\ ~doc.hasMsg

\* the document of the last run when its stamp-sync step starts, and when it ends
BeforeSync ==
    MessageFieldsUpdated(ReconcileBeforeMessage(Stamp(pre, newT), oldT, newT), oldT, newT)

AfterSync == _updateZeebeModelerTemplateOnReferencedElement(BeforeSync, oldT, newT)

\* C14 (message stamp sync): in a run with newTemplate, a message the element references
\* when the stamp-sync step ends carries newTemplate's id as its stamp, whether it was
\* there before the run or was created in it, and so does the message the element
\* references after the run; the step writes the stamp only when there was a message
\* whose stamp differed.
C14_MessageStampSync ==
    Applied =>
        /\ AfterSync.hasMsg => AfterSync.msg.modelerTemplate = newT.id
        /\ doc.hasMsg => doc.msg.modelerTemplate = newT.id
        /\ Cardinality(StepAt("messageStamp")) =
              (IF BeforeSync.hasMsg /\ BeforeSync.msg.modelerTemplate # newT.id THEN 1 ELSE 0)

C14_Witness ==
    /\ last = "change"
    /\ pre.hasMsg
    /\ pre.msg.modelerTemplate = "t1"
    /\ newT.id = "t2"
    /\ BindsMessage
    /\ StepAt("messageStamp") # {}
    /\ doc.hasMsg
    /\ doc.msg.modelerTemplate = "t2"

\* the last operation was the listener of a creation event
Created == last \in {"shape.create", "connection.create"}

\* the conditions under which the listener applies the default template
DefaultApplies ==
    /\ event.createElementsBehavior # "false"
    /\ event.get = NoTemplate
    /\ event.getDefault # NoTemplate

\* C15 (default-template auto-apply): on a creation event the change-template command is
\* executed exactly once, without oldTemplate and with the default template as
\* newTemplate, iff the element carries no template, a default template is registered
\* for it and hints.createElementsBehavior is not false; otherwise it is not executed and
\* the element is left as it is.
C15_DefaultTemplate ==
    Created =>
        IF DefaultApplies
        THEN /\ calls = event.calls + 1
             /\ oldT = NoTemplate
             /\ newT = event.getDefault
             /\ doc = preExecute(pre, NoTemplate, event.getDefault)
        ELSE /\ calls = event.calls
             /\ doc = pre

C15_Witness ==
    /\ last = "connection.create"
    /\ DefaultApplies
    /\ event.createElementsBehavior = Undef
    /\ calls = 1
    /\ Len(newT.properties) > 0
    /\ doc.modelerTemplate = event.getDefault.id
    /\ pre.modelerTemplate # Undef

\* the singleton kinds of the element's container, each with the step and the mutation
\* that creates its node
ElementSingletons ==
    {[kind |-> "zeebe:TaskDefinition", step |-> "taskDefinition", op |-> "create"],
     [kind |-> "zeebe:CalledElement", step |-> "calledElement", op |-> "create"],
     [kind |-> "zeebe:IoMapping", step |-> "ioMapping", op |-> "createHolder"],
     [kind |-> "zeebe:TaskHeaders", step |-> "taskHeaders", op |-> "createHolder"],
     [kind |-> "zeebe:Properties", step |-> "zeebeProperties", op |-> "createHolder"]}

CountKind(values, kind) == Cardinality({i \in 1..Len(values) : values[i].kind = kind})

\* the number of mutations of the last run that are the given one
Issued(step, op) ==
    Cardinality({i \in 1..Len(doc.log) : doc.log[i].step = step /\ doc.log[i].op = op})

AtMostOneOfEach(d) ==
    /\ \A s \in ElementSingletons : CountKind(d.values, s.kind) <= 1
    /\ CountKind(d.msg.values, "zeebe:Subscription") <= 1

\* C16 (singleton invariant): a run that starts with at most one node of each singleton
\* kind in the element's container and in the message's ends with at most one of each;
\* it creates at most one node of a kind, and none of a kind the container held.
C16_Singletons ==
    (calls > 0 /\ AtMostOneOfEach(pre)) =>
        /\ AtMostOneOfEach(doc)
        /\ \A s \in ElementSingletons :
              /\ Issued(s.step, s.op) <= 1
              /\ CountKind(pre.values, s.kind) > 0 => Issued(s.step, s.op) = 0
        /\ Issued("subscription", "create") <= 1
        /\ CountKind(pre.msg.values, "zeebe:Subscription") > 0
              => Issued("subscription", "create") = 0

C16_Witness ==
    /\ last = "change"
    /\ \A s \in ElementSingletons : CountKind(pre.values, s.kind) = 1
    /\ CountKind(pre.msg.values, "zeebe:Subscription") = 1
    /\ Issued("taskDefinition", "set") > 0
    /\ Issued("calledElement", "set") > 0
    /\ Issued("subscription", "set") > 0
    /\ \A s \in ElementSingletons : CountKind(doc.values, s.kind) = 1
    /\ CountKind(doc.msg.values, "zeebe:Subscription") = 1

\* the keyed collections: the binding type, the holder's kind, the list of its entries,
\* the slot that holds an entry's identity key and the slot that holds its value
KeyedCollections ==
    {[type |-> ZEEBE_INPUT_TYPE, kind |-> "zeebe:IoMapping", list |-> "inputParameters",
      key |-> "target", value |-> "source"],
     [type |-> ZEEBE_OUTPUT_TYPE, kind |-> "zeebe:IoMapping", list |-> "outputParameters",
      key |-> "source", value |-> "target"],
     [type |-> ZEEBE_TASK_HEADER_TYPE, kind |-> "zeebe:TaskHeaders", list |-> "values",
      key |-> "key", value |-> "value"],
     [type |-> ZEEBE_PROPERTY_TYPE, kind |-> "zeebe:Properties", list |-> "properties",
      key |-> "name", value |-> "value"]}

\* the entries of every holder of the document are pairwise distinct in their key
UniqueKeys(d) ==
    \A c \in KeyedCollections :
        \A h \in 1..Len(d.values) :
            d.values[h].kind = c.kind =>
                \A i, j \in 1..Len(d.values[h][c.list]) :
                    i # j => d.values[h][c.list][i][c.key] # d.values[h][c.list][j][c.key]

\* C17 (key uniqueness): a run that starts with entries unique by identity key in every
\* keyed-collection holder ends with entries unique by identity key, whatever the
\* templates, also when the new template lists a key more than once.
C17_UniqueKeys == (calls > 0 /\ UniqueKeys(pre)) => UniqueKeys(doc)

\* the new template lists an input target twice, the element had no entry for it, and has
\* one after the run
C17_Witness ==
    /\ last = "change"
    /\ \E i, j \in 1..Len(newT.properties) :
          /\ i # j
          /\ newT.properties[i].binding.type = ZEEBE_INPUT_TYPE
          /\ newT.properties[j].binding.type = ZEEBE_INPUT_TYPE
          /\ newT.properties[i].binding.name = newT.properties[j].binding.name
          /\ \A h \in 1..Len(pre.values) : \A e \in 1..Len(pre.values[h].inputParameters) :
                pre.values[h].inputParameters[e].target # newT.properties[i].binding.name
          /\ \E h \in 1..Len(doc.values) :
                /\ Len(doc.values[h].inputParameters) = 2
                /\ \E e \in 1..2 :
                      doc.values[h].inputParameters[e].target = newT.properties[i].binding.name
    /\ Issued("ioMapping", "create") = 1
    /\ Issued("ioMapping", "set") = 1

\* the positions of the old template's properties of the kind and identity key of p
OldMatches(p) == {j \in 1..Len(oldT.properties) : Slot(oldT.properties[j]) = Slot(p)}

\* C18 (identity matching): for every new property of the last run, of any binding kind,
\* findOldProperty gives an old property of the same kind and identity key when the old
\* template has one, and undefined when there is no old template or no such property.
C18_IdentityMatching ==
    calls > 0 =>
        \A i \in 1..Len(newT.properties) :
            LET p == newT.properties[i]
                found == findOldProperty(oldT, p)
            IN  IF oldT = NoTemplate \/ OldMatches(p) = {}
                THEN found = NoProperty
                ELSE \E j \in OldMatches(p) : found = oldT.properties[j]

\* the properties of a template that are bound to one field of the called element
CalledElementFor(template, f) ==
    SelectSeq(template.properties, LAMBDA p :
        p.binding.type = ZEEBE_CALLED_ELEMENT /\ p.binding.property = f)

\* the called-element node of a document; a node without values when there is none
CalledElementOf(d) == HolderOf(d.values, "zeebe:CalledElement")

\* C19 (called-element keep-on-edit): a field of an existing called-element node that the
\* new template binds with free-form properties only and that the old template binds
\* too, and whose value differed from the old template's default when the run started,
\* holds the same value after the run.
C19_CalledElementKeepOnEdit ==
    \A f \in CalledElementFields :
        (/\ Applied
         /\ HasNode(pre.values, "zeebe:CalledElement")
         /\ Editable(CalledElementFor(newT, f))
         /\ Len(CalledElementFor(oldT, f)) > 0
         /\ CalledElementOf(pre).attrs[f] # CalledElementFor(oldT, f)[1].value)
        => /\ HasNode(doc.values, "zeebe:CalledElement")
           /\ CalledElementOf(doc).attrs[f] = CalledElementOf(pre).attrs[f]

\* the two singleton kinds with fields: the binding types of the kind, the node, and the
\* step that reconciles it
FieldSingletons ==
    {[types |-> TASK_DEFINITION_TYPES, kind |-> "zeebe:TaskDefinition", step |-> "taskDefinition"],
     [types |-> {ZEEBE_CALLED_ELEMENT}, kind |-> "zeebe:CalledElement", step |-> "calledElement"]}

\* the old template's properties of the given binding types whose kind and identity key
\* no property of the new template has
Dropped(types) ==
    SelectSeq(oldT.properties, LAMBDA o :
        /\ o.binding.type \in types
        /\ \A i \in 1..Len(newT.properties) : Slot(newT.properties[i]) # Slot(o))

\* C20 (dropped singleton fields are cleared): when the new template has a field of the
\* task-definition or called-element kind, every field of that kind that the old template
\* has and the new one has not, by resolved field name, is undefined on the node after
\* the run, and every clearing of the step is issued after its creations and updates.
C20_DroppedFieldsCleared ==
    \A s \in FieldSingletons :
        (Applied /\ Len(OfTypes(newT.properties, s.types)) > 0) =>
            /\ \A k \in 1..Len(Dropped(s.types)) :
                  /\ HasNode(doc.values, s.kind)
                  /\ HolderOf(doc.values, s.kind).attrs[Slot(Dropped(s.types)[k])[2]] = Undef
            /\ \A i, j \in StepAt(s.step) :
                  (doc.log[i].op = "clear" /\ doc.log[j].op \in {"create", "set"}) => j < i

\* the defaults the new template gives the slot of property p
DefaultsFor(p) ==
    {newT.properties[i].value :
        i \in {j \in 1..Len(newT.properties) : Slot(newT.properties[j]) = Slot(p)}}

\* C21 (retained singleton fields are never cleared): a field of the task definition or
\* of the called element that the new template binds holds after the run the value it
\* held before or a default the new template gives it, whichever binding shape the old
\* and the new template use for that field.
C21_RetainedFieldsKept ==
    \A s \in FieldSingletons :
        Applied =>
            \A i \in 1..Len(newT.properties) :
                LET p == newT.properties[i]
                IN  p.binding.type \in s.types =>
                        /\ HasNode(doc.values, s.kind)
                        /\ HolderOf(doc.values, s.kind).attrs[Slot(p)[2]]
                              \in {HolderOf(pre.values, s.kind).attrs[Slot(p)[2]]}
                                  \cup DefaultsFor(p)

\* the two mappings: the binding type, the list of the io-mapping holder, the slot that
\* holds an entry's identity key, the slot of the binding that names it, and the slot
\* that holds the entry's value
Mappings ==
    {[type |-> ZEEBE_INPUT_TYPE, list |-> "inputParameters", key |-> "target",
      bound |-> "name", value |-> "source"],
     [type |-> ZEEBE_OUTPUT_TYPE, list |-> "outputParameters", key |-> "source",
      bound |-> "source", value |-> "target"]}

\* the entries of a list of the document's holder of a kind
EntriesOf(d, kind, list) == HolderOf(d.values, kind)[list]

\* the entries of a list whose key slot holds k
WithKey(entries, slot, k) == SelectSeq(entries, LAMBDA e : e[slot] = k)

\* the properties of the new template that are bound to a keyed collection, and the
\* keys they give to its entries
NewOf(c) == OfTypes(newT.properties, {c.type})

NewKeys(c) == {Slot(NewOf(c)[i])[2] : i \in 1..Len(NewOf(c))}

\* the first property of the old template with the kind and key of p
OldFor(p) == oldT.properties[CHOOSE j \in OldMatches(p) : \A k \in OldMatches(p) : j <= k]

\* C22 (output mapping asymmetry): an output property is matched to the output parameter
\* and to the old property with its source, and the parameter's target is what is
\* compared, kept and overwritten; an input property is matched by target, and the
\* source is its value.  For a property that binds its key once and is neither optional
\* nor a Dropdown, on an entry that was there: a free-form property keeps a value that
\* differs from the old default, and otherwise the value becomes the new default.  No
\* run gives an entry a key that neither an entry nor a new property had, and an entry
\* whose key no new property has is left as it was or removed.
C22_MappingAsymmetry ==
    Applied =>
        /\ \A m \in Mappings : \A i \in 1..Len(newT.properties) :
              LET p == newT.properties[i]
                  k == p.binding[m.bound]
                  before == WithKey(EntriesOf(pre, "zeebe:IoMapping", m.list), m.key, k)
                  after == WithKey(EntriesOf(doc, "zeebe:IoMapping", m.list), m.key, k)
              IN  (/\ p.binding.type = m.type
                   /\ BoundOnce(newT, p)
                   /\ ~p.optional
                   /\ p.type # "Dropdown"
                   /\ Len(before) = 1)
                  => /\ Len(after) = 1
                     /\ after[1][m.value] =
                           (IF /\ p.type # "Hidden"
                               /\ IF OldMatches(p) # {}
                                  THEN before[1][m.value] # OldFor(p).value
                                  ELSE Truthy(before[1][m.value])
                            THEN before[1][m.value]
                            ELSE p.value)
        /\ \A c \in KeyedCollections :
              \A e \in 1..Len(EntriesOf(doc, c.kind, c.list)) :
                  LET entry == EntriesOf(doc, c.kind, c.list)[e]
                  IN  IF entry[c.key] \in NewKeys(c)
                      THEN TRUE
                      ELSE \E b \in 1..Len(EntriesOf(pre, c.kind, c.list)) :
                              EntriesOf(pre, c.kind, c.list)[b] = entry

\* an input and an output of one run, both on entries that held the old default: the
\* input's source and the output's target are the new default, the keys are in place
C22_Witness ==
    /\ last = "change"
    /\ WithKey(EntriesOf(pre, "zeebe:IoMapping", "inputParameters"), "target", "x")
          = <<[source |-> "a", target |-> "x"]>>
    /\ WithKey(EntriesOf(pre, "zeebe:IoMapping", "outputParameters"), "source", "=x")
          = <<[source |-> "=x", target |-> "a"]>>
    /\ Len(oldT.properties) = 9
    /\ WithKey(EntriesOf(doc, "zeebe:IoMapping", "inputParameters"), "target", "x")
          = <<[source |-> "b", target |-> "x"]>>
    /\ WithKey(EntriesOf(doc, "zeebe:IoMapping", "outputParameters"), "source", "=x")
          = <<[source |-> "=x", target |-> "b"]>>

\* the new template has a property of the kind of the holder of keyed collection c
Reconciled(c) ==
    \E h \in HolderKinds : h.kind = c.kind /\ Len(OfTypes(newT.properties, h.types)) > 0

\* C23 (prune of unmatched entries): for a keyed-collection kind the new template has a
\* property of, no entry that was in the holder when the run started and whose key no
\* property of the new template has is in the holder after the run.
C23_UnmatchedPruned ==
    \A c \in KeyedCollections :
        (Applied /\ Reconciled(c)) =>
            \A b \in 1..Len(EntriesOf(pre, c.kind, c.list)) :
                LET k == EntriesOf(pre, c.kind, c.list)[b][c.key]
                IN  k \notin NewKeys(c) => Len(WithKey(EntriesOf(doc, c.kind, c.list), c.key, k)) = 0

\* the identity keys the old template has for keyed collection c
OldKeys(c) ==
    {Slot(OfTypes(oldT.properties, {c.type})[i])[2] :
        i \in 1..Len(OfTypes(oldT.properties, {c.type}))}

\* a property of the new template with identity key k in keyed collection c that is
\* optional and has an empty default
OptionalEmpty(c, k) ==
    \E i \in 1..Len(NewOf(c)) :
        /\ Slot(NewOf(c)[i])[2] = k
        /\ NewOf(c)[i].optional
        /\ ~Truthy(NewOf(c)[i].value)

\* the entries of keyed collection c at the start of the run whose key is on no entry
\* of the collection after it
Pruned(c) ==
    {b \in 1..Len(EntriesOf(pre, c.kind, c.list)) :
        Len(WithKey(EntriesOf(doc, c.kind, c.list), c.key,
                    EntriesOf(pre, c.kind, c.list)[b][c.key])) = 0}

Kept(p, v) ==
    /\ p.type # "Hidden"
    /\ IF p.type = "Dropdown"
       THEN p.hasChoices /\ \E n \in 1..Len(p.choices) : p.choices[n] = v
       ELSE IF OldMatches(p) # {} THEN v # OldFor(p).value
       ELSE Truthy(v)

\* C25 (found-entry retention): for each keyed-collection kind and each property of the
\* new template that alone has its key, an entry that had the key at the start of the
\* run is gone after it exactly when the property is optional, its default is empty and
\* the value policy does not keep the entry's value; otherwise it is still in the holder.
C25_FoundRetention ==
    \A c \in KeyedCollections :
        Applied =>
            \A i \in 1..Len(NewOf(c)) :
                LET p == NewOf(c)[i]
                    before == WithKey(EntriesOf(pre, c.kind, c.list), c.key, Slot(p)[2])
                    after == WithKey(EntriesOf(doc, c.kind, c.list), c.key, Slot(p)[2])
                IN  (BoundOnce(newT, p) /\ Len(before) = 1) =>
                        /\ Len(after) <= 1
                        /\ Len(after) = 0 <=>
                              (p.optional /\ ~Truthy(p.value) /\ ~Kept(p, before[1][c.value]))

\* the entries of keyed collection c with the key of property p, before and after the run
Before(c, p) == WithKey(EntriesOf(pre, c.kind, c.list), c.key, Slot(p)[2])
After(c, p) == WithKey(EntriesOf(doc, c.kind, c.list), c.key, Slot(p)[2])

\* the one entry a run creates for property p: p's key and p's default
CreatedFor(c, p) == <<(c.key :> Slot(p)[2]) @@ (c.value :> p.value)>>

\* property p of the new template alone has its key, and no entry had it at the start
Unmatched(c, p) == BoundOnce(newT, p) /\ Len(Before(c, p)) = 0

Entries(node) ==
    LET lists == {c.list : c \in {k \in KeyedCollections : k.kind = node.kind}}
    IN  Cardinality({<<l, n>> \in lists \X (1..MaxProps + 2) : n <= Len(node[l])})

\* C27 (no empty holder lingers): after a run with a new template, every io-mapping,
\* task-headers and custom-properties holder in the element's extension container has
\* at least one entry.
C27_NoEmptyHolder ==
    Applied =>
        \A i \in 1..Len(doc.values) :
            doc.values[i].kind \in {c.kind : c \in KeyedCollections} =>
                Entries(doc.values[i]) > 0

\* the run created a message and set the element's messageRef to it
MessageCreated == \E n \in 1..Len(doc.log) : doc.log[n].op = "createMessage"

\* C28 (lazy message creation): a run on an element that references no message creates
\* one only if the new template has a message or subscription field whose default is not
\* empty or which is required.
C28_LazyMessage ==
    (Applied /\ ~pre.hasMsg /\ MessageCreated) =>
        \E i \in 1..Len(newT.properties) :
            /\ newT.properties[i].binding.type \in MESSAGE_BINDING_TYPES
            /\ Truthy(newT.properties[i].value) \/ ~newT.properties[i].optional

\* the old template has a property of one of the types and the new template has none:
\* every field of the kind is dropped and none is contributed
AllDropped(types) ==
    /\ Len(OfTypes(oldT.properties, types)) > 0
    /\ Len(OfTypes(newT.properties, types)) = 0

\* the run's mutations in a step other than taking a node out of the extension
\* container and creating the container itself
Acts(steps) ==
    {n \in 1..Len(doc.log) :
        doc.log[n].step \in steps /\ doc.log[n].op \notin {"remove", "extensionElements"}}

\* C29 (dropped field without a holder is a no-op): when the old template has fields of
\* a binding kind, the new template has none, and the task-definition node,
\* called-element node, collection holder, message or subscription that would carry them
\* does not exist at the start of the run, the run creates none and writes no value in
\* the reconciler of that kind.
C29_DroppedWithoutHolder ==
    Applied =>
        /\ \A s \in FieldSingletons \cup HolderKinds :
              (AllDropped(s.types) /\ ~HasNode(pre.values, s.kind)) =>
                  ~HasNode(doc.values, s.kind) /\ Acts({s.step}) = {}
        /\ (AllDropped(MESSAGE_BINDING_TYPES) /\ ~pre.hasMsg) =>
              ~MessageCreated /\ Acts({"message", "subscription"}) = {}
        /\ (/\ AllDropped({MESSAGE_ZEEBE_SUBSCRIPTION_PROPERTY_TYPE})
            /\ pre.hasMsg
            /\ ~HasNode(pre.msg.values, "zeebe:Subscription")) =>
              Acts({"subscription"}) = {}

\* the binding types whose nodes and holders live in the element's extension container
ExtensionTypes ==
    TASK_DEFINITION_TYPES \cup
    {ZEEBE_INPUT_TYPE, ZEEBE_OUTPUT_TYPE, ZEEBE_TASK_HEADER_TYPE, ZEEBE_PROPERTY_TYPE,
     ZEEBE_CALLED_ELEMENT}

\* C30 (lazy extension container): a run with a new template that has no
\* task-definition, mapping, header, custom-property or called-element property, on an
\* element without an extension container, leaves the element without one.
C30_LazyExtensionContainer ==
    (Applied /\ ~pre.hasExt /\ Len(OfTypes(newT.properties, ExtensionTypes)) = 0) =>
        ~doc.hasExt

\* the names the plain properties of a template bind
PlainNamesOf(template) ==
    {OfTypes(template.properties, {PROPERTY_TYPE})[i].binding.name :
        i \in 1..Len(OfTypes(template.properties, {PROPERTY_TYPE}))}

\* the plain fields of the old template that no plain property of the new template names
DroppedPlain == PlainNamesOf(oldT) \ PlainNamesOf(newT)

\* the positions in the run's log of the plain reconciler's mutations of one kind
PlainOps(op) ==
    {n \in 1..Len(doc.log) : doc.log[n].step = "properties" /\ doc.log[n].op = op}

\* C31 (dropped plain fields are cleared unconditionally): after a run with a new
\* template every plain field of the old template that no plain property of the new
\* template names is undefined, whatever it held; the clearing is one mutation, issued
\* iff there is such a field and before every write of a plain default; a plain field
\* that the new template names holds what it held or a default of the new template.
C31_DroppedPlainCleared ==
    Applied =>
        /\ \A n \in DroppedPlain : doc.attrs[n] = Undef
        /\ Cardinality(PlainOps("remove")) = IF DroppedPlain = {} THEN 0 ELSE 1
        /\ \A r \in PlainOps("remove") : \A w \in PlainOps("set") : r < w
        /\ \A i \in 1..Len(newT.properties) :
              LET q == newT.properties[i]
              IN  q.binding.type = PROPERTY_TYPE =>
                      doc.attrs[q.binding.name] \in
                          {pre.attrs[q.binding.name]} \cup DefaultsFor(q)

\* a field the user had edited is dropped and cleared, and the one clearing comes
\* before the write of a default to the field that the new template names
C31_Witness ==
    /\ Applied
    /\ DroppedPlain = {"versionTag"}
    /\ pre.attrs["versionTag"] = "c"
    /\ doc.attrs["versionTag"] = Undef
    /\ PlainNamesOf(newT) = {"name"}
    /\ pre.attrs["name"] = "a"
    /\ doc.attrs["name"] = "b"
    /\ PlainOps("remove") # {} /\ PlainOps("set") # {}

\* the keys of the entries of keyed collection c at the start of the run
PreKeys(c) ==
    {EntriesOf(pre, c.kind, c.list)[b][c.key] : b \in 1..Len(EntriesOf(pre, c.kind, c.list))}

\* the entries in the lists of holder kind h after the run whose key no entry had at the
\* start: the entries of the run's own making
Fresh(h) ==
    {ce \in {c \in KeyedCollections : c.kind = h.kind} \X (1..MaxProps + 2) :
        /\ ce[2] <= Len(EntriesOf(doc, ce[1].kind, ce[1].list))
        /\ EntriesOf(doc, ce[1].kind, ce[1].list)[ce[2]][ce[1].key] \notin PreKeys(ce[1])}

\* the properties of the new template for keyed collection c have pairwise distinct keys
\* and non-empty defaults, and there is at least one
AllCreate(c) ==
    /\ Len(NewOf(c)) > 0
    /\ \A i \in 1..Len(NewOf(c)) : BoundOnce(newT, NewOf(c)[i]) /\ Truthy(NewOf(c)[i].value)

\* C32 (created entries survive the run): after a run with a new template, each holder
\* has as many entries of the run's own making as the reconciler issued creations, so no
\* later append and no prune dropped one; and properties with distinct keys and
\* non-empty defaults applied to a holder without entries leave exactly their entries,
\* in template order.
C32_CreatedSurvive ==
    Applied =>
        /\ \A h \in HolderKinds : Cardinality(Fresh(h)) = Issued(h.step, "create")
        /\ \A c \in KeyedCollections :
              (AllCreate(c) /\ Entries(HolderOf(pre.values, c.kind)) = 0) =>
                  EntriesOf(doc, c.kind, c.list) =
                      [i \in 1..Len(NewOf(c)) |-> CreatedFor(c, NewOf(c)[i])[1]]

\* two properties created their entries in a holder that had none, and both are there
C32_Witness ==
    \E c \in KeyedCollections :
        /\ Applied
        /\ AllCreate(c)
        /\ Len(NewOf(c)) = 2
        /\ Entries(HolderOf(pre.values, c.kind)) = 0
        /\ Len(EntriesOf(doc, c.kind, c.list)) = 2
        /\ Issued(CHOOSE s \in {h.step : h \in {k \in HolderKinds : k.kind = c.kind}} : TRUE,
                  "create") = 2
====
